---- MODULE Spec2Model ----
(***************************************************************************)
(* The Grid: world store, spatial tools, action executor and the two       *)
(* timer-driven loops (resident turns, CLU thinking) of the server.        *)
(*                                                                         *)
(* Coordinates are fixed-point hundredths of a world unit (U(1) = 100).    *)
(* Points produced by cos/sin are rounded outward to that grid, so a point *)
(* on a search ring is never strictly inside the ring, which is what the   *)
(* IEEE doubles of the program give for the sixteen angles used.           *)
(*                                                                         *)
(* One action of the model is one run-to-completion block of the event     *)
(* loop: the code between two real suspensions (an HTTP call to the model  *)
(* server, a timer). An await on an already settled promise does not let   *)
(* another timer or request handler in.                                    *)
(***************************************************************************)
EXTENDS Integers, Sequences, FiniteSets, TLC

VARIABLES
  residents,            \* table residents, in rowid order: [id, name, x, z, state]
  structures,           \* table structures, in rowid order: [type, x, z]
  events,               \* table events (AUTOINCREMENT id = index): [type, op, ts]
  memories,             \* table memories: set of [rid, idx, ts]
  pruned,               \* history: rows deleted from memories by addMemory
  adds,                 \* history: addMemory calls made
  now,                  \* Date.now()
  broadcasts,           \* what the broadcast sink was handed: [type, rid, op, logLen]
  execs,                \* history of ActionExecutor.execute calls
  phase,                \* "boot" | "running" | "closed"
  simulationRunning,    \* index.js simulationRunning
  cycleCount,           \* index.js cycleCount
  simTimers,            \* armed setTimeout(simulationLoop) timers
  turns,                \* resident turns suspended in residentRunner.runTurn
  selected,             \* history: resident ids picked by simulationLoop, in order
  lastTurn,             \* history: outcome of the most recent completed turn
  goals,                \* CluBrain.goals (count of active goals)
  observations,         \* CluBrain.memory.worldObservations (length)
  pendingActions,       \* CluBrain.pendingActions
  residentInstructions, \* CluBrain.residentInstructions: set of [rid, seq]
  conversationHistory,  \* CluBrain.conversationHistory (roles)
  isThinking,           \* CluBrain.isThinking
  thinkTimers,          \* armed setTimeout(cluThinkLoop) timers
  thinks,               \* think() calls suspended in callModel: "loop" | "console"
  thinkCalls,           \* history: think() calls made by the loop and the console
  consoles,             \* console commands suspended in processCommand
  importantEvents,      \* CluBrain.memory.importantEvents, its length
  thinkLog,             \* history: what each answered think() call did
  storeCalls,           \* history: direct calls of WorldState and SpatialTools methods
                        \* and their returns
  client                \* the browser's WebSocketClient and the sockets it created

vars == <<residents, structures, events, memories, pruned, adds, now, broadcasts, execs,
          phase, simulationRunning, cycleCount, simTimers, turns, selected, lastTurn,
          goals, observations, pendingActions, residentInstructions,
          conversationHistory, isThinking, thinkTimers, thinks, thinkCalls,
          consoles, importantEvents, thinkLog, storeCalls, client>>

storeVars == <<residents, structures, events, memories, pruned, adds>>
sinkVars == <<broadcasts, execs>>
worldLoopVars == <<cycleCount, simTimers, turns, selected, lastTurn>>
\* the client after its constructor: no socket yet. sockets holds the state of
\* every WebSocket created so far, socket the index of this.socket (0 for null)
NoClient ==
  [sockets |-> <<>>, socket |-> 0, connected |-> FALSE, reconnectAttempts |-> 0,
   timers |-> 0, disconnects |-> 0]

cluVars == <<goals, observations, pendingActions, residentInstructions,
             conversationHistory, isThinking, thinkTimers, thinks, thinkCalls>>

-----------------------------------------------------------------------------
(* Bounds of the model *)

MaxCycle == 2          \* world ticks explored in the server model
MaxThinks == 1         \* think() calls explored in the server model
MaxConsole == 1        \* console commands explored in the server model
MaxTurnCycle == 2      \* world ticks explored with every answer of the model server
MaxRound == 10         \* world ticks explored in the round-robin model
MaxCluThinks == 3      \* think() calls explored in the deliberation model
MaxCluConsole == 2     \* console think commands explored in the deliberation model
MaxDirectiveCycle == 3 \* world ticks explored in the directive model
MaxDirectiveThinks == 2 \* think() calls explored in the directive model
MaxDrainThinks == 3    \* think() calls explored in the drain model
MaxTalks == 11         \* conversation commands explored in the history model
MaxTalksInFlight == 2  \* conversation commands awaiting the model at once
MaxTalkThinks == 1     \* think() calls explored in the history model
MaxPaceCycle == 3      \* world ticks explored with the two loops side by side
MaxPaceThinks == 2     \* think() calls explored with the two loops side by side
MaxSockets == 12       \* WebSocket objects the client creates
MaxDisconnects == 2    \* disconnect() calls explored
MaxNow == 2            \* clock readings explored in the event log model
MaxFaults == 1         \* store failures explored in the world loop
MaxGridCalls == 4      \* the point and the conversions applied to it in the grid model
MaxStoreCalls == 2     \* WorldState calls explored in the store model
MaxExecs == 2          \* execute calls explored in the executor model
MaxAdds == 102         \* addMemory calls explored in the memory model
MaxStalls == 1         \* addMemory calls that read the same millisecond as the previous one

-----------------------------------------------------------------------------
(* Fixed point and small helpers *)

U(n) == n * 100

Abs(n) == IF n < 0 THEN -n ELSE n

Min(a, b) == IF a < b THEN a ELSE b

\* JavaScript %: the remainder has the sign of the dividend
JsMod(a, n) == IF a >= 0 THEN a % n ELSE -((-a) % n)

DistSq(x1, z1, x2, z2) == (x1 - x2) * (x1 - x2) + (z1 - z2) * (z1 - z2)

\* Math.round(Math.sqrt(d2)) in world units, d2 in squared hundredths
RoundedDist(d2) ==
  CHOOSE k \in 0..200 :
    /\ (k = 0 \/ (2 * k - 1) * (2 * k - 1) * 2500 <= d2)
    /\ d2 < (2 * k + 1) * (2 * k + 1) * 2500

NullPos == <<>>

-----------------------------------------------------------------------------
(* WorldState *)

HasResident(rs, id) == \E i \in 1..Len(rs) : rs[i].id = id

IndexOf(rs, id) == CHOOSE i \in 1..Len(rs) : rs[i].id = id

\* getResidentPosition: the row's position, or null
GetResidentPosition(rs, id) ==
  IF HasResident(rs, id) THEN <<rs[IndexOf(rs, id)].x, rs[IndexOf(rs, id)].z>> ELSE NullPos

\* setResidentPosition: UPDATE ... WHERE id = ?
SetResidentPosition(rs, id, x, z) ==
  [i \in 1..Len(rs) |-> IF rs[i].id = id THEN [rs[i] EXCEPT !.x = x, !.z = z] ELSE rs[i]]

DirX(d) == IF d = "east" THEN 1 ELSE IF d = "west" THEN -1 ELSE 0
DirZ(d) == IF d = "south" THEN 1 ELSE IF d = "north" THEN -1 ELSE 0

\* movement.distance || 1
MoveDistance(mv) == IF mv.distance = 0 THEN 1 ELSE mv.distance

\* the new position moveResident computes (and returns), or null for an unknown id
MovedPos(rs, id, mv) ==
  LET pos == GetResidentPosition(rs, id) IN
  IF pos = NullPos THEN NullPos
  ELSE <<pos[1] + DirX(mv.direction) * U(MoveDistance(mv)),
         pos[2] + DirZ(mv.direction) * U(MoveDistance(mv))>>

\* the residents table after moveResident
MoveResident(rs, id, mv) ==
  LET p == MovedPos(rs, id, mv) IN
  IF p = NullPos THEN rs ELSE SetResidentPosition(rs, id, p[1], p[2])

\* updateResidentState: UPDATE ... WHERE id = ?
UpdateResidentState(rs, id, st) ==
  [i \in 1..Len(rs) |-> IF rs[i].id = id THEN [rs[i] EXCEPT !.state = st] ELSE rs[i]]

\* addResident: INSERT with the default state
AddResident(rs, id, name, x, z) ==
  Append(rs, [id |-> id, name |-> name, x |-> x, z |-> z, state |-> "idle"])

GetResidentsInRadiusStrict(rs, x, z, radius) ==
  SelectSeq(rs, LAMBDA r : DistSq(r.x, r.z, x, z) < U(radius) * U(radius))

\* getResidentsInRadius: inclusive circular query, radius in world units
GetResidentsInRadius(rs, x, z, radius) ==
  SelectSeq(rs, LAMBDA r : DistSq(r.x, r.z, x, z) <= U(radius) * U(radius))

LogEventNewestFirst(ev, type, op, ts) == <<[type |-> type, op |-> op, ts |-> ts]>> \o ev

\* logEvent: INSERT INTO events; the AUTOINCREMENT id of a row is its position
LogEvent(ev, type, op, ts) == Append(ev, [type |-> type, op |-> op, ts |-> ts])

\* addStructure: INSERT INTO structures
AddStructure(ss, type, x, z) == Append(ss, [type |-> type, x |-> x, z |-> z])

\* next memory index: (MAX(memory_index) || 0) + 1
NextIndex(ms, rid) ==
  LET idxs == {m.idx : m \in {r \in ms : r.rid = rid}} IN
  IF idxs = {} THEN 1 ELSE (CHOOSE i \in idxs : \A j \in idxs : j <= i) + 1

\* the rows ORDER BY timestamp DESC LIMIT n can return: every row newer than the
\* n-th timestamp, and as many rows of the n-th timestamp as fill the limit, in an
\* order SQL leaves open
TopRows(M, n) ==
  IF Cardinality(M) <= n THEN {M}
  ELSE IF n <= 0 THEN {{}}
  ELSE LET th == CHOOSE t \in {m.ts : m \in M} :
                   /\ Cardinality({m \in M : m.ts > t}) < n
                   /\ Cardinality({m \in M : m.ts >= t}) >= n
       IN {{m \in M : m.ts > th} \cup T :
             T \in {X \in SUBSET {m \in M : m.ts = th} :
                      Cardinality(X) = n - Cardinality({m \in M : m.ts > th})}}

\* the prune of addMemory keeps the rows listed by
\* SELECT memory_index ... ORDER BY timestamp DESC LIMIT 100
MemoryCap == 100

PruneKeepsOneMore(M) == TopRows(M, MemoryCap + 1)

PruneKeeps(M) == TopRows(M, MemoryCap)

\* the rows of rid after the INSERT of addMemory
Inserted(ms, rid, ts) ==
  {r \in ms : r.rid = rid} \cup {[rid |-> rid, idx |-> NextIndex(ms, rid), ts |-> ts]}

\* the memories tables addMemory can leave: DELETE the rows of rid whose
\* memory_index is NOT IN the kept list
AddMemoryResults(ms, rid, ts) ==
  {{r \in ms : r.rid # rid} \cup
   {r \in Inserted(ms, rid, ts) : r.idx \in {k.idx : k \in K}} :
     K \in PruneKeeps(Inserted(ms, rid, ts))}

\* getMemories(residentId, limit)
GetMemories(ms, rid, limit) == TopRows({r \in ms : r.rid = rid}, limit)

\* one entry of getPerception(...).nearbyResidents; the distance is the square
\* root of distSq
PerceptionEntry(r, pos) ==
  [id |-> r.id, distSq |-> DistSq(r.x, r.z, pos[1], pos[2]), state |-> r.state]

\* getPerception(residentId, radius).nearbyResidents from the position pos on
NearbyResidents(rs, id, pos, radius) ==
  LET others == SelectSeq(GetResidentsInRadius(rs, pos[1], pos[2], radius),
                          LAMBDA r : r.id # id)
  IN [i \in 1..Len(others) |-> PerceptionEntry(others[i], pos)]

\* getPerception(residentId, radius): null for an unknown id
GetPerception(rs, id, radius) ==
  IF GetResidentPosition(rs, id) = NullPos
    THEN [null |-> TRUE, position |-> NullPos, nearbyResidents |-> <<>>]
    ELSE [null |-> FALSE, position |-> GetResidentPosition(rs, id),
          nearbyResidents |-> NearbyResidents(rs, id, GetResidentPosition(rs, id), radius)]

-----------------------------------------------------------------------------
(* SpatialTools *)

gridSize == 5

\* Math.floor(v / gridSize) for v in hundredths
Cell(v) == v \div U(gridSize)

\* worldToGrid: the label `${col}${row}` as <<char code - 65, row number>>
WorldToGrid(x, z) == <<JsMod(Cell(x) + 10, 26), Cell(z) + 10>>

\* the decimal digits of n >= 0 as character codes
RECURSIVE DigitChars(_)
DigitChars(n) ==
  IF n < 10 THEN <<48 + n>> ELSE Append(DigitChars(n \div 10), 48 + (n % 10))

\* `${row}`: the characters of a number, '-' first if it is negative
NumberChars(n) == IF n < 0 THEN <<45>> \o DigitChars(-n) ELSE DigitChars(n)

\* the string worldToGrid returns, as character codes:
\* String.fromCharCode(65 + col) and the digits of the row
GridLabel(x, z) == <<65 + WorldToGrid(x, z)[1]>> \o NumberChars(WorldToGrid(x, z)[2])

\* the digits parseInt reads from index i on, up to the first other character
RECURSIVE ReadDigits(_, _, _)
ReadDigits(cs, i, acc) ==
  IF i > Len(cs) \/ cs[i] \notin 48..57 THEN [read |-> i, v |-> acc]
  ELSE ReadDigits(cs, i + 1, acc * 10 + (cs[i] - 48))

\* parseInt(string): nan if no digit follows the optional sign
ParseInt(cs) ==
  LET neg == Len(cs) > 0 /\ cs[1] = 45
      from == IF Len(cs) > 0 /\ cs[1] \in {43, 45} THEN 2 ELSE 1
      r == ReadDigits(cs, from, 0)
  IN [nan |-> r.read = from, v |-> IF neg THEN -r.v ELSE r.v]

\* the <<col, row>> gridToWorld reads from a label:
\* gridRef.charCodeAt(0) - 65 and parseInt(gridRef.slice(1))
ParseLabel(cs) == <<cs[1] - 65, ParseInt(Tail(cs)).v>>

GridToWorldCorner(ref) == <<(ref[1] - 10) * U(gridSize), (ref[2] - 10) * U(gridSize)>>

\* gridToWorld: the centre of the labelled cell
GridToWorld(ref) ==
  <<(ref[1] - 10) * U(gridSize) + U(gridSize) \div 2,
    (ref[2] - 10) * U(gridSize) + U(gridSize) \div 2>>

\* 10000 * cos(k * pi / 8), k = 0..4, rounded up
CosTable == <<10000, 9239, 7072, 3827, 0>>

Cos16(k) ==
  LET m == k % 16 IN
  IF m <= 4 THEN CosTable[m + 1]
  ELSE IF m <= 8 THEN -CosTable[9 - m]
  ELSE IF m <= 12 THEN -CosTable[m - 7]
  ELSE CosTable[17 - m]

Sin16(k) == Cos16(k + 12)

\* distance * cos, in hundredths, rounded away from zero
Along(c, distance) ==
  IF c >= 0 THEN (distance * c + 99) \div 100 ELSE -((distance * (-c) + 99) \div 100)

\* getStructureTemplates()[type].size; 0 for a type with no template
TemplateSize(type) ==
  CASE type \in {"beacon", "obelisk"} -> 1
    [] type \in {"wall", "platform"} -> 2
    [] type = "gateway" -> 3
    [] type = "arena" -> 4
    [] OTHER -> 0

IsSpaceClearOfResidents(x, z, size, rs, ss) ==
  \A i \in 1..Len(rs) :
    ~(DistSq(rs[i].x, rs[i].z, x, z) < (size * U(gridSize)) * (size * U(gridSize)))

\* isSpaceClear: no resident and no listed structure closer than size * gridSize
IsSpaceClear(x, z, size, rs, ss) ==
  LET minDist == size * U(gridSize) IN
  /\ \A i \in 1..Len(rs) : ~(DistSq(rs[i].x, rs[i].z, x, z) < minDist * minDist)
  /\ \A i \in 1..Len(ss) : ~(DistSq(ss[i].x, ss[i].z, x, z) < minDist * minDist)

\* getStructuresNear: inclusive circular query, radius in world units
GetStructuresNear(ss, x, z, radius) ==
  SelectSeq(ss, LAMBDA s : DistSq(s.x, s.z, x, z) <= U(radius) * U(radius))

minDistance == 5
maxDistance == 30

\* the candidates of the spiral, in the order the two loops visit them
SpiralPoints(nx, nz) ==
  LET rings == (maxDistance - minDistance) \div gridSize + 1 IN
  [i \in 1..(rings * 16) |->
     LET distance == minDistance + ((i - 1) \div 16) * gridSize
         k == (i - 1) % 16
     IN <<nx + Along(Cos16(k), distance), nz + Along(Sin16(k), distance)>>]

\* the first candidate of pts that is clear of rs and near, or null
FirstClear(pts, size, rs, near) ==
  IF \A i \in 1..Len(pts) : ~IsSpaceClear(pts[i][1], pts[i][2], size, rs, near)
    THEN NullPos
    ELSE pts[CHOOSE i \in 1..Len(pts) :
               /\ IsSpaceClear(pts[i][1], pts[i][2], size, rs, near)
               /\ \A j \in 1..(i - 1) :
                    ~IsSpaceClear(pts[j][1], pts[j][2], size, rs, near)]

FindEmptySpaceAmongResidents(nx, nz, size, rs, ss) ==
  FirstClear(SpiralPoints(nx, nz), size, rs, <<>>)

\* findEmptySpace: the first clear candidate, or null
FindEmptySpace(nx, nz, size, rs, ss) ==
  FirstClear(SpiralPoints(nx, nz), size, rs, GetStructuresNear(ss, nx, nz, maxDistance))

\* a placement that is accepted without looking at the occupants
ValidatePlacementUnchecked(x, z, size, rs, ss) == TRUE

\* validatePlacement(...).valid
ValidatePlacement(x, z, size, rs, ss) ==
  IsSpaceClear(x, z, size, rs, GetStructuresNear(ss, x, z, size * gridSize * 2))

\* getPath(from, to).direction
PathDirection(fx, fz, tx, tz) ==
  LET dx == tx - fx
      dz == tz - fz
  IN IF Abs(dx) > Abs(dz) THEN (IF dx > 0 THEN "east" ELSE "west")
     ELSE (IF dz > 0 THEN "south" ELSE "north")

\* getPath(from, to).distance
PathDistance(fx, fz, tx, tz) == RoundedDist(DistSq(fx, fz, tx, tz))

-----------------------------------------------------------------------------
(* ActionExecutor *)

\* An action {action, params}: one record shape, absent params are "" or 0.
\* loc.kind: "none" | "ref" (location: 'K10') | "point" (location: {x, z})
\*         | "near" (near: {x, z}) | "nearName" (near: 'center')
NoLoc == [kind |-> "none", x |-> 0, z |-> 0, ref |-> <<0, 0>>, name |-> ""]
RefLoc(c, r) == [NoLoc EXCEPT !.kind = "ref", !.ref = <<c, r>>]
PointLoc(x, z) == [NoLoc EXCEPT !.kind = "point", !.x = x, !.z = z]
NearLoc(x, z) == [NoLoc EXCEPT !.kind = "near", !.x = x, !.z = z]
NearName(n) == [NoLoc EXCEPT !.kind = "nearName", !.name = n]

NoAction ==
  [action |-> "", type |-> "", loc |-> NoLoc, residentId |-> 0, residentName |-> "",
   instruction |-> "", message |-> "", direction |-> "", distance |-> 0, to |-> NoLoc]

Build(type, loc) == [NoAction EXCEPT !.action = "build", !.type = type, !.loc = loc]
Gather(loc) == [NoAction EXCEPT !.action = "gather", !.loc = loc]
Announce(msg) == [NoAction EXCEPT !.action = "announce", !.message = msg]
InstructId(id, text) ==
  [NoAction EXCEPT !.action = "instruct", !.residentId = id, !.instruction = text]
InstructName(n, text) ==
  [NoAction EXCEPT !.action = "instruct", !.residentName = n, !.instruction = text]
MoveDir(id, dir, dist) ==
  [NoAction EXCEPT !.action = "move_resident", !.residentId = id,
                   !.direction = dir, !.distance = dist]
MoveTo(id, loc, dist) ==
  [NoAction EXCEPT !.action = "move_resident", !.residentId = id, !.to = loc,
                   !.distance = dist]
Other(kind) == [NoAction EXCEPT !.action = kind]

\* name.toLowerCase().includes(token): the fragments used as tokens
Includes(name, token) ==
  \/ token = name
  \/ <<name, token>> \in {<<"forge-001", "forge">>, <<"scout-002", "scout">>,
                          <<"beacon", "bea">>}

Failure(err) == [success |-> FALSE, error |-> err, x |-> 0, z |-> 0, affected |-> 0]
Success(x, z, n) == [success |-> TRUE, error |-> "", x |-> x, z |-> z, affected |-> n]

\* the store tables and the sink an execute call works on
World(rs, ss, ev, bc) ==
  [residents |-> rs, structures |-> ss, events |-> ev, broadcasts |-> bc,
   result |-> Failure("")]

\* broadcast(data): the sink is handed the message; logLen is the number of
\* committed log entries at that moment
Emit(bc, type, rid, op, ev) ==
  Append(bc, [type |-> type, rid |-> rid, op |-> op, logLen |-> Len(ev)])

\* resolveNear
ResolveNear(w, loc) ==
  IF loc.kind = "near" THEN <<loc.x, loc.z>>
  ELSE IF loc.name \in {"center", "origin"} THEN <<0, 0>>
  ELSE LET rs == w.residents
           ri == {i \in 1..Len(rs) : Includes(rs[i].name, loc.name)}
           ss == GetStructuresNear(w.structures, 0, 0, 100)
           si == {i \in 1..Len(ss) : Includes(ss[i].type, loc.name)}
       IN IF ri # {} THEN LET i == CHOOSE i \in ri : \A j \in ri : i <= j
                          IN <<rs[i].x, rs[i].z>>
          ELSE IF si # {} THEN LET i == CHOOSE i \in si : \A j \in si : i <= j
                               IN <<ss[i].x, ss[i].z>>
          ELSE <<0, 0>>

\* the position SpatialTools.executeBuild resolves for a template of that size
BuildPosition(w, size, loc) ==
  IF loc.kind = "ref" THEN GridToWorld(loc.ref)
  ELSE IF loc.kind = "near"
    THEN FindEmptySpace(loc.x, loc.z, size, w.residents, w.structures)
  ELSE <<loc.x, loc.z>>

\* SpatialTools.executeBuild from the resolved position on: validate, add the structure
PlaceStructure(w, type, size, position) ==
  IF position = NullPos THEN [w EXCEPT !.result = Failure("No empty space found")]
  ELSE IF ~ValidatePlacement(position[1], position[2], size, w.residents, w.structures)
    THEN [w EXCEPT !.result = Failure("Space is occupied")]
  ELSE [w EXCEPT !.structures = AddStructure(@, type, position[1], position[2]),
                 !.result = Success(position[1], position[2], 0)]

\* SpatialTools.executeBuild: look up the template, resolve the position, validate,
\* add the structure
SpatialExecuteBuild(w, type, loc) ==
  IF TemplateSize(type) = 0 THEN [w EXCEPT !.result = Failure("Unknown structure type")]
  ELSE PlaceStructure(w, type, TemplateSize(type),
                      BuildPosition(w, TemplateSize(type), loc))

\* the buildLocation executeBuild hands to SpatialTools
BuildLocation(w, a) ==
  IF a.loc.kind \in {"ref", "point"} THEN a.loc
  ELSE IF a.loc.kind \in {"near", "nearName"}
    THEN NearLoc(ResolveNear(w, a.loc)[1], ResolveNear(w, a.loc)[2])
  ELSE NearLoc(0, 0)

\* executeBuild after SpatialTools returned `built`: log and broadcast a success
ReportBuild(built, op, ts) ==
  IF ~built.result.success THEN built
  ELSE [built EXCEPT
          !.events = LogEvent(@, "structure_built", op, ts),
          !.broadcasts = Emit(@, "structure_built", 0, op,
                              LogEvent(built.events, "structure_built", op, ts))]

\* ActionExecutor.executeBuild
ExecuteBuild(w, a, op, ts) ==
  IF a.type = "" THEN [w EXCEPT !.result = Failure("No structure type specified")]
  ELSE ReportBuild(SpatialExecuteBuild(w, a.type, BuildLocation(w, a)), op, ts)

\* the resident an instruct or move_resident action names, as an index; 0 if none
FindResident(w, a) ==
  LET rs == w.residents
      byName == {i \in 1..Len(rs) : Includes(rs[i].name, a.residentName)}
  IN IF a.residentId # 0
       THEN (IF HasResident(rs, a.residentId) THEN IndexOf(rs, a.residentId) ELSE 0)
     ELSE IF a.residentName # "" /\ byName # {}
       THEN CHOOSE i \in byName : \A j \in byName : i <= j
     ELSE 0

\* ActionExecutor.executeInstruct
ExecuteInstruct(w, a, op, ts) ==
  LET i == FindResident(w, a)
      logged == LogEvent(w.events, "resident_directive", op, ts)
  IN IF i = 0 THEN [w EXCEPT !.result = Failure("Resident not found")]
     ELSE [w EXCEPT !.events = logged,
                    !.broadcasts = Emit(@, "clu_directive", w.residents[i].id, op, logged),
                    !.result = Success(0, 0, 0)]

\* the target point of a gather
GatherTarget(w, a) ==
  IF a.loc.kind = "ref" THEN GridToWorld(a.loc.ref)
  ELSE IF a.loc.kind = "point" THEN <<a.loc.x, a.loc.z>>
  ELSE IF a.loc.kind \in {"near", "nearName"} THEN ResolveNear(w, a.loc)
  ELSE <<0, 0>>

\* the movement a gather gives the resident at rs[i]
GatherMove(rs, i, t) ==
  [direction |-> PathDirection(rs[i].x, rs[i].z, t[1], t[2]),
   distance |-> Min(PathDistance(rs[i].x, rs[i].z, t[1], t[2]), 5)]

\* the for loop of executeGather over the listed residents, from index i on
RECURSIVE GatherLoop(_, _, _, _)
GatherLoop(rs, listed, i, t) ==
  IF i > Len(listed) THEN rs
  ELSE GatherLoop(MoveResident(rs, listed[i].id, GatherMove(listed, i, t)), listed, i + 1, t)

\* the resident_moved broadcasts of a gather, one per moved resident
RECURSIVE GatherEmits(_, _, _, _, _)
GatherEmits(bc, listed, i, op, ev) ==
  IF i > Len(listed) THEN bc
  ELSE GatherEmits(Emit(bc, "resident_moved", listed[i].id, op, ev), listed, i + 1, op, ev)

\* executeGather from the resolved target t on
GatherAt(w, t, op, ts) ==
  LET listed == w.residents
      logged == LogEvent(w.events, "gather_command", op, ts)
  IN [w EXCEPT !.residents = GatherLoop(listed, listed, 1, t),
               !.events = logged,
               !.broadcasts = Emit(GatherEmits(@, listed, 1, op, logged),
                                   "world_event", 0, op, logged),
               !.result = Success(t[1], t[2], Len(listed))]

\* ActionExecutor.executeGather
ExecuteGather(w, a, op, ts) == GatherAt(w, GatherTarget(w, a), op, ts)

ExecuteAnnounceLoggingFirst(w, a, op, ts) ==
  IF a.message = ""
    THEN [w EXCEPT !.events = LogEvent(@, "clu_announcement", op, ts),
                   !.result = Failure("No message to announce")]
    ELSE [w EXCEPT !.events = LogEvent(@, "clu_announcement", op, ts),
                   !.broadcasts = Emit(@, "world_event", 0, op,
                                       LogEvent(w.events, "clu_announcement", op, ts)),
                   !.result = Success(0, 0, 0)]

\* ActionExecutor.executeAnnounce
ExecuteAnnounce(w, a, op, ts) ==
  LET logged == LogEvent(w.events, "clu_announcement", op, ts) IN
  IF a.message = "" THEN [w EXCEPT !.result = Failure("No message to announce")]
  ELSE [w EXCEPT !.events = logged,
                 !.broadcasts = Emit(@, "world_event", 0, op, logged),
                 !.result = Success(0, 0, 0)]

\* ActionExecutor.executeSpawn: a marker for the caller, nothing is changed
ExecuteSpawn(w, a, op, ts) == [w EXCEPT !.result = Success(0, 0, 0)]

\* the movement executeMoveResident hands to moveResident; direction "" if neither
\* `to` nor `direction` was given
MoveResidentMovement(w, a, i) ==
  LET r == w.residents[i]
      t == IF a.to.kind = "ref" THEN GridToWorld(a.to.ref) ELSE <<a.to.x, a.to.z>>
  IN IF a.to.kind # "none"
       THEN [direction |-> PathDirection(r.x, r.z, t[1], t[2]),
             distance |-> Min(PathDistance(r.x, r.z, t[1], t[2]),
                              IF a.distance = 0 THEN 10 ELSE a.distance)]
     ELSE IF a.direction # ""
       THEN [direction |-> a.direction,
             distance |-> IF a.distance = 0 THEN 3 ELSE a.distance]
     ELSE [direction |-> "", distance |-> 0]

\* executeMoveResident from the movement mv of the resident at index i on
MoveBy(w, i, mv, op) ==
  IF mv.direction = "" THEN [w EXCEPT !.result = Failure("Failed to move resident")]
  ELSE [w EXCEPT !.residents = MoveResident(@, w.residents[i].id, mv),
                 !.broadcasts = Emit(@, "resident_moved", w.residents[i].id, op, w.events),
                 !.result = Success(MovedPos(w.residents, w.residents[i].id, mv)[1],
                                    MovedPos(w.residents, w.residents[i].id, mv)[2], 1)]

\* executeMoveResident from the resident found, at index i (0 if none), on
MoveFound(w, a, i, op) ==
  IF i = 0 THEN [w EXCEPT !.result = Failure("Resident not found")]
  ELSE MoveBy(w, i, MoveResidentMovement(w, a, i), op)

\* ActionExecutor.executeMoveResident
ExecuteMoveResident(w, a, op, ts) == MoveFound(w, a, FindResident(w, a), op)

\* ActionExecutor.execute: dispatch on action.action
Dispatch(w, a, op, ts) ==
  CASE a.action = "" -> [w EXCEPT !.result = Failure("No action specified")]
    [] a.action = "build" -> ExecuteBuild(w, a, op, ts)
    [] a.action = "instruct" -> ExecuteInstruct(w, a, op, ts)
    [] a.action = "gather" -> ExecuteGather(w, a, op, ts)
    [] a.action = "announce" -> ExecuteAnnounce(w, a, op, ts)
    [] a.action = "spawn" -> ExecuteSpawn(w, a, op, ts)
    [] a.action = "move_resident" -> ExecuteMoveResident(w, a, op, ts)
    [] OTHER -> [w EXCEPT !.result = Failure("Unknown action")]

\* what one execute call did, for the history: the result it returned and whether
\* the tables, the log and the sink differ from before the call
ExecRecord(w, after, a) ==
  [a |-> a, success |-> after.result.success,
   error |-> after.result.error, x |-> after.result.x, z |-> after.result.z,
   storeChanged |-> (after.residents # w.residents \/ after.structures # w.structures),
   logged |-> Len(after.events) - Len(w.events),
   emitted |-> Len(after.broadcasts) - Len(w.broadcasts),
   residentsBefore |-> w.residents, structuresBefore |-> w.structures]

\* one execute call on the tables w with the call history h
Executed(w, h, a, after) == [w |-> after, h |-> Append(h, ExecRecord(w, after, a))]

Execute(w, h, a, ts) == Executed(w, h, a, Dispatch(w, a, Len(h) + 1, ts))

\* a drain that takes the newest action first (pop where the code has shift)
RECURSIVE DrainNewestFirst(_, _, _, _)
DrainNewestFirst(st, queue, i, ts) ==
  IF i > Len(queue) THEN st
  ELSE DrainNewestFirst(Execute(st.w, st.h, queue[Len(queue) - i + 1], ts),
                        queue, i + 1, ts)

\* while (pendingActions.length > 0) execute(getNextAction()), from index i on
RECURSIVE DrainLoop(_, _, _, _)
DrainLoop(st, queue, i, ts) ==
  IF i > Len(queue) THEN st
  ELSE DrainLoop(Execute(st.w, st.h, queue[i], ts), queue, i + 1, ts)

\* the execute call reaches a store call (which throws on a closed store)
TouchesStore(a) ==
  CASE a.action = "build" ->
         /\ a.type # ""
         /\ \/ TemplateSize(a.type) # 0
            \/ a.loc.kind = "nearName" /\ a.loc.name \notin {"center", "origin"}
    [] a.action \in {"instruct", "move_resident"} -> a.residentId # 0 \/ a.residentName # ""
    [] a.action = "gather" -> TRUE
    [] a.action = "announce" -> a.message # ""
    [] OTHER -> FALSE

\* the drain loop on a closed store: the first action that reaches the store is
\* taken off the queue and throws, the actions behind it stay queued
RECURSIVE DrainClosed(_, _, _, _)
DrainClosed(st, queue, i, ts) ==
  IF i > Len(queue) THEN [w |-> st.w, h |-> st.h, left |-> <<>>]
  ELSE IF TouchesStore(queue[i])
    THEN [w |-> st.w, h |-> st.h, left |-> SubSeq(queue, i + 1, Len(queue))]
  ELSE DrainClosed(Execute(st.w, st.h, queue[i], ts), queue, i + 1, ts)

\* the drain loop of cluThinkLoop: what it leaves, `left` the actions still queued
Drained(closed, st, queue, ts) ==
  IF closed THEN DrainClosed(st, queue, 1, ts)
  ELSE [w |-> DrainLoop(st, queue, 1, ts).w, h |-> DrainLoop(st, queue, 1, ts).h,
        left |-> <<>>]

-----------------------------------------------------------------------------
(* ResidentRunner *)

NoMovement == [direction |-> "null", distance |-> 0]

\* a turn {inner_thought, speech, action, movement}; "" stands for null or empty
Turn(thought, speech, action, movement, source) ==
  [inner_thought |-> thought, speech |-> speech, action |-> action,
   movement |-> movement, source |-> source]

\* runTurn threw: there is no turn
NoTurn == Turn("", "", "", NoMovement, "none")

\* no turn has completed yet
NoLastTurn == [failed |-> FALSE, turn |-> NoTurn, rid |-> 0, cycle |-> 0]

\* mockTurn: every draw of Math.random(); nearby = perception.nearbyResidents.length
MockTurns(nearby) ==
  LET movements == {NoMovement} \cup
        [direction : {"north", "south", "east", "west"}, distance : 1..3]
      drawn == {Turn("thought", sp, ac, mv, "mock") :
                  sp \in {"", "speech"}, ac \in {"", "action"}, mv \in movements}
      addressed == {Turn("thought", "speech", "action", mv, "mock") : mv \in movements}
  IN IF nearby > 0 THEN drawn \cup addressed ELSE drawn

\* what the model server can answer to a turn request
\*   error:   axios.post rejects (refused, HTTP error, transport timeout)
\*   noText:  no response.data.response, text.match throws inside the try
\*   noJson:  text without a {...} block
\*   badJson: a {...} block JSON.parse rejects
\*   json:    a parsed object, its fields in `turn`
FailedReplies == {"error", "noText", "noJson", "badJson"}

LiveMovements ==
  {NoMovement, [direction |-> "north", distance |-> 2],
   [direction |-> "east", distance |-> 0]}

JsonReplies ==
  {[kind |-> "json", turn |-> Turn(th, sp, "", mv, "live")] :
     th \in {"", "thought"}, sp \in {"", "speech"}, mv \in LiveMovements}

TurnReplies ==
  {[kind |-> k, turn |-> NoTurn] : k \in FailedReplies} \cup JsonReplies

\* liveTurn: the turns it can return for a reply
LiveTurnNoFallback(reply, nearby) ==
  IF reply.kind = "json" THEN {reply.turn} ELSE {NoTurn}

LiveTurn(reply, nearby) ==
  IF reply.kind = "json" THEN {reply.turn} ELSE MockTurns(nearby)

\* getPerception(id).nearbyResidents.length, radius 15
NearbyCount(rs, id) ==
  LET pos == GetResidentPosition(rs, id) IN
  Len(SelectSeq(GetResidentsInRadius(rs, pos[1], pos[2], 15), LAMBDA r : r.id # id))

-----------------------------------------------------------------------------
(* CluBrain *)

\* getResidentInstruction: the queue of a resident, [] if it has none
InstructionsOf(ri, rid) ==
  IF \E q \in ri : q.rid = rid THEN (CHOOSE q \in ri : q.rid = rid).seq ELSE <<>>

TakeLastInstruction(queue) ==
  [instruction |-> queue[Len(queue)], rest |-> SubSeq(queue, 1, Len(queue) - 1)]

\* getResidentInstruction on a queue that is not empty: instructions.shift()
TakeInstruction(queue) == [instruction |-> Head(queue), rest |-> Tail(queue)]

SetInstructions(ri, rid, seq) ==
  {q \in ri : q.rid # rid} \cup {[rid |-> rid, seq |-> seq]}

\* thoughts parsed from a think response; the defaults of parseThoughts when the
\* response holds no JSON block or one that does not parse
DefaultThoughts ==
  [observation |-> "", newGoal |-> "", instructFor |-> 0, instruction |-> "",
   actions |-> <<>>]

\* push and shift of worldObservations, a length
ObservationCap == 50

maxHistoryLength == 20

\* recordEvent: push, and shift once beyond 100 entries; on the length
RecordEvent(n) == Min(n + 1, 100)

\* conversationHistory.push(h); while (length > maxHistoryLength) shift()
PushTrim(hist, role) ==
  LET pushed == Append(hist, role) IN
  IF Len(pushed) > maxHistoryLength
    THEN SubSeq(pushed, Len(pushed) - maxHistoryLength + 1, Len(pushed))
    ELSE pushed

-----------------------------------------------------------------------------
(* The executor on its own: execute calls, whoever dispatches them, on worlds *)
(* that hold a few residents and the structures earlier calls built           *)

Resident(id, name, x, z) == [id |-> id, name |-> name, x |-> x, z |-> z, state |-> "idle"]

ExecWorlds ==
  {<<>>,
   <<Resident(1, "forge-001", U(20), U(20))>>,
   <<Resident(1, "forge-001", U(5), 0), Resident(2, "scout-002", 0, U(-10))>>,
   <<Resident(1, "forge-001", 0, 0), Resident(2, "scout-002", U(3), U(4))>>}

ExecActions ==
  {Build("beacon", NearLoc(0, 0)), Build("beacon", NearName("center")),
   Build("beacon", NearName("forge")), Build("obelisk", NoLoc),
   Build("wall", NearLoc(0, 0)), Build("tower", NearLoc(0, 0)), Build("", NoLoc),
   Build("beacon", PointLoc(U(10), 0)), Build("beacon", PointLoc(U(7), 0)),
   Build("wall", RefLoc(10, 10)),
   Build("arena", NearLoc(0, 0)), Build("beacon", PointLoc(U(-31), 0)),
   Gather(NoLoc), Gather(PointLoc(U(20), U(20))), Gather(NearName("bea")),
   Announce("assemble"), Announce(""),
   InstructId(1, "build"), InstructId(9, "build"), InstructName("scout", "explore"),
   MoveDir(1, "north", 0), MoveDir(2, "east", 4), MoveDir(9, "north", 1),
   MoveTo(1, PointLoc(0, 0), 0), MoveTo(2, RefLoc(12, 10), 3),
   [NoAction EXCEPT !.action = "move_resident", !.residentId = 1],
   Other("spawn"), Other("dance"), NoAction}

InitExec ==
  /\ residents \in ExecWorlds
  /\ structures = <<>>
  /\ events = <<>>
  /\ memories = {}
  /\ pruned = {}
  /\ adds = 0
  /\ now = 0
  /\ broadcasts = <<>>
  /\ execs = <<>>
  /\ phase = "running"
  /\ simulationRunning = TRUE
  /\ cycleCount = 0
  /\ simTimers = 0
  /\ turns = {}
  /\ selected = <<>>
  /\ lastTurn = NoLastTurn
  /\ goals = 0
  /\ observations = 0
  /\ pendingActions = <<>>
  /\ residentInstructions = {}
  /\ conversationHistory = <<>>
  /\ isThinking = FALSE
  /\ thinkTimers = 0
  /\ thinks = {}
  /\ thinkCalls = 0
  /\ consoles = 0
  /\ importantEvents = 0
  /\ thinkLog = <<>>
  /\ storeCalls = <<>>
  /\ client = NoClient

\* actionExecutor.execute(a)
ExecStep ==
  /\ Len(execs) < MaxExecs
  /\ \E a \in ExecActions :
       \E st \in {Execute(World(residents, structures, events, broadcasts), execs, a, now)} :
          /\ residents' = st.w.residents
          /\ structures' = st.w.structures
          /\ events' = st.w.events
          /\ broadcasts' = st.w.broadcasts
          /\ execs' = st.h
  /\ UNCHANGED <<memories, pruned, adds, now, phase, simulationRunning, worldLoopVars,
                 cluVars, consoles, importantEvents, thinkLog, storeCalls, client>>

NextExec == ExecStep

SpecExec == InitExec /\ [][NextExec]_vars

-----------------------------------------------------------------------------
(* The server: startSimulation, the two loops, the console *)

initialResidents == 5

\* names the soul generator gives the five initial residents and a console spawn
SpawnName(i) ==
  CASE i = 1 -> "axiom-000" [] i = 2 -> "forge-001" [] i = 3 -> "scout-002"
    [] i = 4 -> "prism-003" [] i = 5 -> "vigil-004" [] OTHER -> "parse-005"

\* start positions drawn by addResident, (Math.random() - 0.5) * 40 on each axis:
\* the layouts explored for the initial residents
SpawnLayouts ==
  {<<<<0, 0>>, <<U(3), U(4)>>, <<U(-12), U(5)>>, <<U(12), U(-16)>>, <<U(19), U(19)>>>>,
   <<<<U(2), U(-7)>>, <<U(-18), U(-18)>>, <<U(18), U(1)>>, <<0, U(17)>>, <<U(-6), U(6)>>>>}

SpawnPoints == {<<U(1), U(1)>>, <<U(-15), U(10)>>}

\* residents a store file left by an earlier run can hold
PersistedWorlds ==
  {<<>>, <<Resident(1, "axiom-000", U(4), 0), Resident(2, "forge-001", U(-20), U(8))>>}

\* the for loop of startSimulation
RECURSIVE SpawnInitial(_, _, _)
SpawnInitial(rs, layout, i) ==
  IF i > initialResidents THEN rs
  ELSE SpawnInitial(AddResident(rs, i, SpawnName(i), layout[i][1], layout[i][2]),
                    layout, i + 1)

Init ==
  /\ residents \in PersistedWorlds
  /\ structures = <<>>
  /\ events = <<>>
  /\ memories = {}
  /\ pruned = {}
  /\ adds = 0
  /\ now = 0
  /\ broadcasts = <<>>
  /\ execs = <<>>
  /\ phase = "boot"
  /\ simulationRunning = FALSE
  /\ cycleCount = 0
  /\ simTimers = 0
  /\ turns = {}
  /\ selected = <<>>
  /\ lastTurn = NoLastTurn
  /\ goals = 0
  /\ observations = 0
  /\ pendingActions = <<>>
  /\ residentInstructions = {}
  /\ conversationHistory = <<>>
  /\ isThinking = FALSE
  /\ thinkTimers = 0
  /\ thinks = {}
  /\ thinkCalls = 0
  /\ consoles = 0
  /\ importantEvents = 0
  /\ thinkLog = <<>>
  /\ storeCalls = <<>>
  /\ client = NoClient

\* simulationLoop after its guard, on the residents rs with `timers` other timers
\* armed: count the cycle, pick residents[cycleCount % length] and run its turn up
\* to the request to the model server; with no resident, re-arm the timer at once
SelectNext(rs, c) == rs[((c + 1) % Len(rs)) + 1]

\* residents[cycleCount % residents.length]
\* a selection that advances every second tick only
SelectEverySecondTick(rs, c) == rs[((c \div 2) % Len(rs)) + 1]

SelectResident(rs, c) == rs[(c % Len(rs)) + 1]

TimersRearmedAtOnce(rs, timers) == timers + 1

\* the timers armed when simulationLoop suspends or returns: with a resident it
\* awaits the turn before it arms the next one
TimersAfterTick(rs, timers) == IF Len(rs) = 0 THEN timers + 1 ELSE timers

SimulationCycle(rs, timers) ==
  LET c == cycleCount + 1
      r == SelectResident(rs, c)
      queue == InstructionsOf(residentInstructions, r.id)
  IN /\ cycleCount' = c
     /\ simTimers' = TimersAfterTick(rs, timers)
     /\ IF Len(rs) = 0
          THEN UNCHANGED <<turns, selected, broadcasts, residentInstructions>>
          ELSE /\ selected' = Append(selected,
                    [cycle |-> c, rid |-> r.id,
                     directive |-> IF queue = <<>> THEN ""
                                   ELSE TakeInstruction(queue).instruction])
               /\ residentInstructions' =
                    IF queue = <<>> THEN residentInstructions
                    ELSE SetInstructions(residentInstructions, r.id,
                                         TakeInstruction(queue).rest)
               /\ broadcasts' = Emit(broadcasts, "resident_turn_start", r.id, 0, events)
               /\ turns' = turns \cup
                    {[rid |-> r.id, cycle |-> c, x |-> r.x, z |-> r.z,
                      nearby |-> NearbyCount(rs, r.id),
                      directive |-> IF queue = <<>> THEN ""
                                    ELSE TakeInstruction(queue).instruction,
                      stalled |-> FALSE]}

\* startSimulation: spawn the initial residents into an empty store, start the
\* simulation loop (its first cycle runs at once) and arm the first think timer
StartSimulation ==
  /\ phase = "boot"
  /\ \E layout \in SpawnLayouts :
       LET rs == IF Len(residents) = 0 THEN SpawnInitial(residents, layout, 1)
                 ELSE residents
       IN /\ residents' = rs
          /\ SimulationCycle(rs, 0)
  /\ phase' = "running"
  /\ simulationRunning' = TRUE
  /\ thinkTimers' = 1
  /\ UNCHANGED <<structures, events, memories, pruned, adds, now, execs, lastTurn, goals,
                 observations, pendingActions, conversationHistory, isThinking, thinks,
                 thinkCalls, consoles, importantEvents, thinkLog, storeCalls, client>>

LoopNeverReturns == FALSE

\* if (!simulationRunning) return; the first statement of both loops
\* loops that also give up their tick while a think() is in flight
LoopReturnsWhileThinking == ~simulationRunning \/ isThinking

LoopReturns == ~simulationRunning

\* a setTimeout(simulationLoop) timer fires
SimulationLoopUpTo(maxCycle) ==
  /\ simTimers > 0
  /\ cycleCount < maxCycle
  /\ IF ~LoopReturns
       THEN SimulationCycle(residents, simTimers - 1)
       ELSE /\ simTimers' = simTimers - 1
            /\ UNCHANGED <<cycleCount, turns, selected, broadcasts, residentInstructions>>
  /\ UNCHANGED <<storeVars, now, execs, phase, simulationRunning, lastTurn, goals,
                 observations, pendingActions, conversationHistory, isThinking,
                 thinkTimers, thinks, thinkCalls, consoles, importantEvents, thinkLog, storeCalls, client>>

\* the model server will never answer the request of turn t
TurnStall ==
  /\ \E t \in turns :
       /\ ~t.stalled
       /\ turns' = (turns \ {t}) \cup {[t EXCEPT !.stalled = TRUE]}
  /\ UNCHANGED <<storeVars, now, sinkVars, phase, simulationRunning, cycleCount,
                 simTimers, selected, lastTurn, cluVars, consoles, importantEvents, thinkLog, storeCalls, client>>

\* runResidentTurn from the answer of the model server on: the turn is applied to
\* the store, the state is set to idle, the end marker is broadcast; then
\* simulationLoop arms its next timer
HasMovementAlways(turn) == TRUE

\* if (turn.movement)
HasMovement(turn) == turn.movement # NoMovement

\* a turn whose move is written from the position the tick perceived, not
\* from the position read when the move is applied
ApplyTurnFromSnapshot(t, turn, ms) ==
  LET moves == HasMovement(turn)
      stale == SetResidentPosition(residents, t.rid, t.x, t.z)
      newPos == MovedPos(stale, t.rid, turn.movement)
      rs1 == IF moves THEN MoveResident(stale, t.rid, turn.movement) ELSE residents
      bc1 == IF moves /\ newPos # NullPos
               THEN Emit(broadcasts, "resident_moved", t.rid, 0, events) ELSE broadcasts
      ev2 == IF turn.speech # "" THEN LogEvent(events, "speech", 0, now) ELSE events
      bc2 == IF turn.speech # ""
               THEN Emit(bc1, "resident_speech", t.rid, 0, ev2) ELSE bc1
      ev3 == IF turn.action # "" THEN LogEvent(ev2, "action", 0, now) ELSE ev2
      bc3 == IF turn.action # ""
               THEN Emit(bc2, "resident_action", t.rid, 0, ev3) ELSE bc2
  IN /\ residents' = UpdateResidentState(rs1, t.rid, "idle")
     /\ events' = ev3
     /\ broadcasts' = Emit(bc3, "resident_turn_end", t.rid, 0, ev3)
     /\ memories' = ms
     /\ pruned' = pruned \cup (memories \ ms)
     /\ adds' = IF turn.inner_thought # "" THEN adds + 1 ELSE adds
     /\ importantEvents' = IF turn.speech # "" THEN RecordEvent(importantEvents)
                            ELSE importantEvents

ApplyTurn(t, turn, ms) ==
  LET moves == HasMovement(turn)
      newPos == MovedPos(residents, t.rid, turn.movement)
      rs1 == IF moves THEN MoveResident(residents, t.rid, turn.movement) ELSE residents
      bc1 == IF moves /\ newPos # NullPos
               THEN Emit(broadcasts, "resident_moved", t.rid, 0, events) ELSE broadcasts
      ev2 == IF turn.speech # "" THEN LogEvent(events, "speech", 0, now) ELSE events
      bc2 == IF turn.speech # ""
               THEN Emit(bc1, "resident_speech", t.rid, 0, ev2) ELSE bc1
      ev3 == IF turn.action # "" THEN LogEvent(ev2, "action", 0, now) ELSE ev2
      bc3 == IF turn.action # ""
               THEN Emit(bc2, "resident_action", t.rid, 0, ev3) ELSE bc2
  IN /\ residents' = UpdateResidentState(rs1, t.rid, "idle")
     /\ events' = ev3
     /\ broadcasts' = Emit(bc3, "resident_turn_end", t.rid, 0, ev3)
     /\ memories' = ms
     /\ pruned' = pruned \cup (memories \ ms)
     /\ adds' = IF turn.inner_thought # "" THEN adds + 1 ELSE adds
     /\ importantEvents' = IF turn.speech # "" THEN RecordEvent(importantEvents)
                            ELSE importantEvents

\* On a closed store the first store call of the apply block throws (every turn
\* reaches one before its first broadcast) and the catch of runResidentTurn ends
\* the turn with nothing applied.
TurnResponseOn(replies) ==
  /\ \E t \in turns, reply \in replies :
       /\ ~t.stalled
       /\ \E turn \in LiveTurn(reply, t.nearby) :
            /\ IF turn = NoTurn \/ phase = "closed"
                 THEN UNCHANGED <<residents, events, broadcasts, memories, pruned, adds,
                                  importantEvents>>
                 ELSE \E ms \in (IF turn.inner_thought # ""
                                   THEN AddMemoryResults(memories, t.rid, now)
                                   ELSE {memories}) :
                        ApplyTurn(t, turn, ms)
            /\ lastTurn' = [failed |-> reply.kind \in FailedReplies, turn |-> turn, rid |-> t.rid,
                             cycle |-> t.cycle]
       /\ turns' = turns \ {t}
  /\ simTimers' = simTimers + 1
  /\ UNCHANGED <<structures, now, execs, phase, simulationRunning, cycleCount, selected,
                 cluVars, consoles, thinkLog, storeCalls, client>>

\* what the model server can answer to a think request: `kind` as for a turn
\* request (an error becomes the interference text in callModel), the parsed
\* thoughts of a json answer in `thoughts`
Thoughts(obs, goal, rid, text, actions) ==
  [observation |-> obs, newGoal |-> goal, instructFor |-> rid, instruction |-> text,
   actions |-> actions]

ThinkReplies ==
  {[kind |-> k, thoughts |-> DefaultThoughts] : k \in {"error", "noJson", "badJson"}} \cup
  {[kind |-> "json", thoughts |-> th] :
     th \in {Thoughts("quiet", "", 0, "", <<>>),
             Thoughts("", "assemble", 0, "", <<Gather(NoLoc)>>),
             Thoughts("scattered", "", 2, "explore",
                      <<MoveDir(1, "north", 2), Announce("")>>),
             Thoughts("", "landmark", 0, "",
                      <<Build("beacon", NearName("center")), InstructId(1, "rest")>>)}}

\* think() from the answer of the model server on: goals, observations, queues and
\* history as the thoughts th leave them
\* a think() that leaves the in-flight flag as it found it (no finally block)
ThinkMergeFlagKept(th) ==
  /\ goals' = IF th.newGoal # "" THEN goals + 1 ELSE goals
  /\ observations' =
       IF th.observation # "" THEN Min(observations + 1, ObservationCap) ELSE observations
  /\ residentInstructions' =
       IF th.instructFor # 0
         THEN SetInstructions(residentInstructions, th.instructFor,
                Append(InstructionsOf(residentInstructions, th.instructFor), th.instruction))
         ELSE residentInstructions
  /\ conversationHistory' = PushTrim(conversationHistory, "assistant")
  /\ isThinking' = isThinking

ThinkMerge(th) ==
  /\ goals' = IF th.newGoal # "" THEN goals + 1 ELSE goals
  /\ observations' =
       IF th.observation # "" THEN Min(observations + 1, ObservationCap) ELSE observations
  /\ residentInstructions' =
       IF th.instructFor # 0
         THEN SetInstructions(residentInstructions, th.instructFor,
                Append(InstructionsOf(residentInstructions, th.instructFor), th.instruction))
         ELSE residentInstructions
  /\ conversationHistory' = PushTrim(conversationHistory, "assistant")
  /\ isThinking' = FALSE

\* what a think() call did once its caller was done with it: whether the request
\* failed (callModel caught an error), what the brain held before, how many actions
\* were dispatched and messages handed to the sink, and the queue left; source
\* "busy" is a cluThinkLoop tick whose think() returned null at once
ThinkRecord(source, reply, dispatched, emitted, left) ==
  [source |-> source, failed |-> reply.kind = "error",
   goals |-> goals, observations |-> observations, queue |-> pendingActions,
   instructions |-> residentInstructions, history |-> conversationHistory,
   dispatched |-> dispatched, emitted |-> emitted, left |-> left]

\* a setTimeout(cluThinkLoop) timer fires: think() starts and suspends in callModel,
\* or returns null at once because a think is in flight, and the timer is re-armed
CluThinkLoopUpTo(maxThinks) ==
  /\ thinkTimers > 0
  /\ thinkCalls < maxThinks
  /\ IF LoopReturns
       THEN /\ thinkTimers' = thinkTimers - 1
            /\ UNCHANGED <<isThinking, thinks, thinkCalls, thinkLog>>
       ELSE IF isThinking
         THEN /\ thinkCalls' = thinkCalls + 1
              /\ thinkLog' = Append(thinkLog,
                   ThinkRecord("busy", [kind |-> "none"], 0, 0, pendingActions))
              /\ UNCHANGED <<thinkTimers, isThinking, thinks>>
         ELSE /\ thinkTimers' = thinkTimers - 1
              /\ isThinking' = TRUE
              /\ thinks' = thinks \cup {"loop"}
              /\ thinkCalls' = thinkCalls + 1
              /\ UNCHANGED thinkLog
  /\ UNCHANGED <<storeVars, now, sinkVars, phase, simulationRunning, worldLoopVars, goals,
                 observations, pendingActions, residentInstructions, conversationHistory,
                 consoles, importantEvents, storeCalls, client>>

CluThinkLoop == CluThinkLoopUpTo(MaxThinks)

\* the think() of cluThinkLoop resumes: merge the thoughts, broadcast clu_thought,
\* drain the pending actions through the executor, arm the next think timer
ThinkResponseOn(replies) ==
  /\ "loop" \in thinks
  /\ \E reply \in replies :
       \E st \in {Drained(phase = "closed",
                             [w |-> World(residents, structures, events,
                                          Emit(broadcasts, "clu_thought", 0, 0, events)),
                              h |-> execs],
                             pendingActions \o reply.thoughts.actions, now)} :
          /\ ThinkMerge(reply.thoughts)
          /\ pendingActions' = st.left
          /\ residents' = st.w.residents
          /\ structures' = st.w.structures
          /\ events' = st.w.events
          /\ broadcasts' = st.w.broadcasts
          /\ execs' = st.h
          /\ thinkLog' = Append(thinkLog,
               ThinkRecord("loop", reply, Len(st.h) - Len(execs),
                           Len(st.w.broadcasts) - Len(broadcasts), st.left))
  /\ thinks' = thinks \ {"loop"}
  /\ thinkTimers' = thinkTimers + 1
  /\ UNCHANGED <<memories, pruned, adds, now, phase, simulationRunning, worldLoopVars,
                 thinkCalls, consoles, importantEvents, storeCalls, client>>

ThinkResponse == ThinkResponseOn(ThinkReplies)

\* the think() of a console `think` command resumes: merge the thoughts, answer,
\* log the command; the queued actions wait for the next drain
ConsoleThinkResponse ==
  /\ "console" \in thinks
  /\ \E reply \in ThinkReplies :
       /\ ThinkMerge(reply.thoughts)
       /\ pendingActions' = pendingActions \o reply.thoughts.actions
       /\ thinkLog' = Append(thinkLog,
            ThinkRecord("console", reply, 0, 0, pendingActions \o reply.thoughts.actions))
  /\ thinks' = thinks \ {"console"}
  /\ events' = IF phase = "closed" THEN events
               ELSE LogEvent(events, "console_command", 0, now)
  /\ UNCHANGED <<residents, structures, memories, pruned, adds, now, sinkVars, phase,
                 simulationRunning, worldLoopVars, thinkTimers, thinkCalls, consoles,
                 importantEvents, storeCalls, client>>

\* the number of console commands handled or in flight
ConsoleCount ==
  Len(SelectSeq(events, LAMBDA e : e.type = "console_command")) + consoles
    + (IF "console" \in thinks THEN 1 ELSE 0)

\* POST /api/console with a command that only reads: status, help, residents, goals, map
ConsoleRead ==
  /\ phase = "running" /\ ConsoleCount < MaxConsole
  /\ events' = LogEvent(events, "console_command", 0, now)
  /\ UNCHANGED <<residents, structures, memories, pruned, adds, now, sinkVars, phase,
                 simulationRunning, worldLoopVars, cluVars, consoles, importantEvents, thinkLog, storeCalls, client>>

\* POST /api/console `spawn`
ConsoleSpawn ==
  /\ phase = "running" /\ ConsoleCount < MaxConsole
  /\ \E p \in SpawnPoints :
       residents' = AddResident(residents, Len(residents) + 1,
                                SpawnName(Len(residents) + 1), p[1], p[2])
  /\ broadcasts' = Emit(broadcasts, "resident_spawned", Len(residents) + 1, 0, events)
  /\ events' = LogEvent(events, "console_command", 0, now)
  /\ importantEvents' = RecordEvent(importantEvents)
  /\ UNCHANGED <<structures, memories, pruned, adds, now, execs, phase, simulationRunning,
                 worldLoopVars, cluVars, consoles, thinkLog, storeCalls, client>>

\* POST /api/console `think`
ConsoleThinkUpTo(maxConsole, maxThinks) ==
  /\ phase = "running" /\ ConsoleCount < maxConsole
  /\ thinkCalls < maxThinks
  /\ IF isThinking
       THEN /\ events' = LogEvent(events, "console_command", 0, now)
            /\ UNCHANGED <<isThinking, thinks, thinkCalls>>
       ELSE /\ isThinking' = TRUE
            /\ thinks' = thinks \cup {"console"}
            /\ thinkCalls' = thinkCalls + 1
            /\ UNCHANGED events
  /\ UNCHANGED <<residents, structures, memories, pruned, adds, now, sinkVars, phase,
                 simulationRunning, worldLoopVars, goals, observations, pendingActions,
                 residentInstructions, conversationHistory, thinkTimers, consoles,
                 importantEvents, thinkLog, storeCalls, client>>

ConsoleThink == ConsoleThinkUpTo(MaxConsole, MaxThinks)

\* POST /api/console `gather` or `build <type>`: one execute call; a successful
\* build is broadcast once more by the handler
ConsoleAct ==
  /\ phase = "running" /\ ConsoleCount < MaxConsole
  /\ \E a \in {Gather(NoLoc), Build("beacon", NearName("center")),
               Build("tower", NearName("center"))} :
       \E st \in {Execute(World(residents, structures, events, broadcasts), execs, a, now)} :
          /\ residents' = st.w.residents
          /\ structures' = st.w.structures
          /\ events' = LogEvent(st.w.events, "console_command", 0, now)
          /\ broadcasts' = IF a.action = "build" /\ st.w.result.success
                             THEN Emit(st.w.broadcasts, "structure_built", 0, 0, st.w.events)
                             ELSE st.w.broadcasts
          /\ execs' = st.h
  /\ UNCHANGED <<memories, pruned, adds, now, phase, simulationRunning, worldLoopVars, cluVars,
                 consoles, importantEvents, thinkLog, storeCalls, client>>

\* POST /api/console with anything else: processCommand records the command and
\* suspends in callModel
ConsoleTalkUpTo(maxConsole, maxInFlight) ==
  /\ phase = "running" /\ ConsoleCount < maxConsole
  /\ consoles < maxInFlight
  /\ conversationHistory' = Append(conversationHistory, "user")
  /\ consoles' = consoles + 1
  /\ UNCHANGED <<storeVars, now, sinkVars, phase, simulationRunning, worldLoopVars, goals,
                 observations, pendingActions, residentInstructions, isThinking,
                 thinkTimers, thinks, thinkCalls, importantEvents, thinkLog, storeCalls, client>>

\* the action block of a conversation answer: none, one that does not parse, or an action
ConsoleTalk == ConsoleTalkUpTo(MaxConsole, MaxConsole)

TalkReplies ==
  {[kind |-> k, action |-> NoAction] : k \in {"noJson", "badJson"}} \cup
  {[kind |-> "json", action |-> a] :
     a \in {Gather(PointLoc(U(10), U(10))), Announce("welcome"), MoveDir(2, "west", 0)}}

\* processCommand resumes: the parsed action is queued and the answer recorded;
\* the handler executes the same action at once and logs the command (on a closed
\* store the first store call throws and the handler answers with the error)
ConsoleTalkResponseOn(replies) ==
  /\ consoles > 0
  /\ \E reply \in replies :
       \E st \in {IF reply.kind = "json"
                       /\ ~(phase = "closed" /\ TouchesStore(reply.action))
                    THEN Execute(World(residents, structures, events, broadcasts), execs,
                                 reply.action, now)
                    ELSE [w |-> World(residents, structures, events, broadcasts),
                          h |-> execs]} :
          /\ pendingActions' = IF reply.kind = "json"
                                 THEN Append(pendingActions, reply.action)
                                 ELSE pendingActions
          /\ residents' = st.w.residents
          /\ structures' = st.w.structures
          /\ events' = IF phase = "closed" THEN st.w.events
                       ELSE LogEvent(st.w.events, "console_command", 0, now)
          /\ broadcasts' = st.w.broadcasts
          /\ execs' = st.h
          /\ importantEvents' = IF reply.kind = "json" /\ st.w.result.success
                                  THEN RecordEvent(importantEvents)
                                  ELSE importantEvents
  /\ conversationHistory' = Append(conversationHistory, "assistant")
  /\ consoles' = consoles - 1
  /\ UNCHANGED <<memories, pruned, adds, now, phase, simulationRunning, worldLoopVars, goals,
                 observations, residentInstructions, isThinking, thinkTimers, thinks,
                 thinkCalls, thinkLog, storeCalls, client>>

ConsoleTalkResponse == ConsoleTalkResponseOn(TalkReplies)

\* SIGINT: the loops are told to stop and the store is closed at once. The
\* process stays up until the server has closed its connections.
Shutdown ==
  /\ phase = "running"
  /\ phase' = "closed"
  /\ simulationRunning' = FALSE
  /\ UNCHANGED <<storeVars, now, sinkVars, worldLoopVars, cluVars, consoles,
                 importantEvents, thinkLog, storeCalls, client>>

\* the answers explored where the other loop and the console run too
ServerReplies ==
  {[kind |-> "json", turn |-> Turn("thought", "", "", NoMovement, "live")],
   [kind |-> "json", turn |-> Turn("", "speech", "", [direction |-> "north", distance |-> 2],
                                   "live")]}

Next ==
  \/ StartSimulation
  \/ SimulationLoopUpTo(MaxCycle)
  \/ TurnStall
  \/ TurnResponseOn(ServerReplies)
  \/ CluThinkLoop
  \/ ThinkResponse
  \/ ConsoleThinkResponse
  \/ ConsoleRead
  \/ ConsoleSpawn
  \/ ConsoleThink
  \/ ConsoleAct
  \/ ConsoleTalk
  \/ ConsoleTalkResponse

Spec == Init /\ [][Next]_vars

\* the resident loop alone, with every answer the model server can give
NextTurn ==
  \/ StartSimulation
  \/ SimulationLoopUpTo(MaxTurnCycle)
  \/ TurnStall
  \/ TurnResponseOn(TurnReplies)

SpecTurn == Init /\ [][NextTurn]_vars

\* the resident loop alone over many cycles, with answers that parse. A timer
\* that is armed fires, and a request the model server answers is answered.
RoundReplies ==
  {[kind |-> "json", turn |-> Turn("", "", "", NoMovement, "live")],
   [kind |-> "json", turn |-> Turn("", "", "", [direction |-> "east", distance |-> 1],
                                   "live")]}

NextRound ==
  \/ StartSimulation
  \/ SimulationLoopUpTo(MaxRound)
  \/ TurnStall
  \/ TurnResponseOn(RoundReplies)

SpecRound ==
  /\ Init
  /\ [][NextRound]_vars
  /\ WF_vars(StartSimulation)
  /\ WF_vars(SimulationLoopUpTo(MaxRound))
  /\ WF_vars(TurnResponseOn(RoundReplies))

\* Date.now() moves on
ClockTick ==
  /\ now < MaxNow
  /\ now' = now + 1
  /\ UNCHANGED <<residents, structures, events, memories, pruned, adds, sinkVars, phase,
                 simulationRunning, worldLoopVars, cluVars, consoles, importantEvents,
                 thinkLog, storeCalls, client>>

\* the ticks that ended in the catch of simulationLoop
FaultCount == Len(SelectSeq(events, LAMBDA e : e.type = "error"))

\* a setTimeout(simulationLoop) timer fires and getAllResidents throws (the store
\* fails): the catch logs the error through the same store, and that call
\* succeeds, and the next timer is armed, or throws out of simulationLoop
SimulationLoopStoreError ==
  /\ simTimers > 0
  /\ simulationRunning
  /\ cycleCount < MaxRound
  /\ FaultCount < MaxFaults
  /\ cycleCount' = cycleCount + 1
  /\ \E logFails \in BOOLEAN :
       IF logFails
         THEN simTimers' = simTimers - 1 /\ UNCHANGED events
         ELSE simTimers' = simTimers /\ events' = LogEvent(events, "error", 0, now)
  /\ UNCHANGED <<residents, structures, memories, pruned, adds, now, sinkVars, phase,
                 simulationRunning, turns, selected, lastTurn, cluVars, consoles,
                 importantEvents, thinkLog, storeCalls, client>>

\* the two loops and the shutdown signal
NextStop ==
  \/ StartSimulation
  \/ SimulationLoopUpTo(MaxCycle)
  \/ TurnResponseOn(ServerReplies)
  \/ CluThinkLoop
  \/ ThinkResponse
  \/ Shutdown

SpecStop == Init /\ [][NextStop]_vars

\* deliberation: the think loop and console think commands
NextClu ==
  \/ StartSimulation
  \/ CluThinkLoopUpTo(MaxCluThinks)
  \/ ThinkResponse
  \/ ConsoleThinkUpTo(MaxCluConsole, MaxCluThinks)
  \/ ConsoleThinkResponse

SpecClu == Init /\ [][NextClu]_vars

\* think answers that carry a residentInstruction
DirectiveReplies ==
  {[kind |-> "json", thoughts |-> th] :
     th \in {Thoughts("", "", 0, "", <<>>),
             Thoughts("", "", 2, "explore", <<>>),
             Thoughts("", "", 2, "rest", <<>>),
             Thoughts("", "", 1, "build", <<>>)}}

\* the directives of the think loop on their way to the residents' turns
NextDirective ==
  \/ StartSimulation
  \/ SimulationLoopUpTo(MaxDirectiveCycle)
  \/ TurnResponseOn(RoundReplies)
  \/ CluThinkLoopUpTo(MaxDirectiveThinks)
  \/ ThinkResponseOn(DirectiveReplies)

SpecDirective == Init /\ [][NextDirective]_vars

\* answers of the model to a think() call whose action lists start with an
\* action the executor refuses
DrainReplies ==
  {[kind |-> "json", thoughts |-> Thoughts("", "", 0, "", actions)] :
     actions \in {<<>>,
                  <<Announce("welcome"), Announce("")>>,
                  <<Announce(""), Gather(NoLoc)>>,
                  <<InstructId(9, "rest"), MoveDir(1, "north", 2)>>,
                  <<Other("dance"), Announce("welcome"), Gather(NoLoc)>>}}

\* the think loop draining its queue, before and after the store is closed
NextDrain ==
  \/ StartSimulation
  \/ CluThinkLoopUpTo(MaxDrainThinks)
  \/ ThinkResponseOn(DrainReplies)
  \/ Shutdown

SpecDrain == Init /\ [][NextDrain]_vars

\* answers to a conversation command that carry no action
PlainTalkReplies == {[kind |-> k, action |-> NoAction] : k \in {"noJson", "badJson"}}

\* answers to a think() call that carry no thoughts
PlainThinkReplies == {[kind |-> "noJson", thoughts |-> DefaultThoughts]}

\* conversation commands at the console and the think loop, on the history
NextTalk ==
  \/ StartSimulation
  \/ ConsoleTalkUpTo(MaxTalks, MaxTalksInFlight)
  \/ ConsoleTalkResponseOn(PlainTalkReplies)
  \/ CluThinkLoopUpTo(MaxTalkThinks)
  \/ ThinkResponseOn(PlainThinkReplies)

SpecTalk == Init /\ [][NextTalk]_vars

\* the two loops side by side; the timers fire, the model server may or may
\* not answer
NextPace ==
  \/ StartSimulation
  \/ SimulationLoopUpTo(MaxPaceCycle)
  \/ TurnResponseOn(ServerReplies)
  \/ CluThinkLoopUpTo(MaxPaceThinks)
  \/ ThinkResponseOn(PlainThinkReplies)

SpecPace ==
  /\ Init
  /\ [][NextPace]_vars
  /\ WF_vars(StartSimulation)
  /\ WF_vars(SimulationLoopUpTo(MaxPaceCycle))
  /\ WF_vars(CluThinkLoopUpTo(MaxPaceThinks))

\* the resident loop on a store that can fail
NextFault ==
  \/ StartSimulation
  \/ SimulationLoopUpTo(MaxRound)
  \/ SimulationLoopStoreError
  \/ TurnResponseOn(RoundReplies)

SpecFault == Init /\ [][NextFault]_vars

\* the writers of the event log under a clock that moves
NextLog ==
  \/ StartSimulation
  \/ SimulationLoopUpTo(MaxCycle)
  \/ TurnResponseOn(ServerReplies)
  \/ ConsoleRead
  \/ ConsoleAct
  \/ ClockTick

SpecLog == Init /\ [][NextLog]_vars

\* the memory table on its own: addMemory calls for one resident, the clock read
\* by a call either later than at the previous call or the same millisecond
InitMem ==
  /\ residents = <<Resident(1, "axiom-000", 0, 0)>>
  /\ structures = <<>>
  /\ events = <<>>
  /\ memories = {}
  /\ pruned = {}
  /\ adds = 0
  /\ now = 0
  /\ broadcasts = <<>>
  /\ execs = <<>>
  /\ phase = "running"
  /\ simulationRunning = TRUE
  /\ cycleCount = 0
  /\ simTimers = 0
  /\ turns = {}
  /\ selected = <<>>
  /\ lastTurn = NoLastTurn
  /\ goals = 0
  /\ observations = 0
  /\ pendingActions = <<>>
  /\ residentInstructions = {}
  /\ conversationHistory = <<>>
  /\ isThinking = FALSE
  /\ thinkTimers = 0
  /\ thinks = {}
  /\ thinkCalls = 0
  /\ consoles = 0
  /\ importantEvents = 0
  /\ thinkLog = <<>>
  /\ storeCalls = <<>>
  /\ client = NoClient

\* worldState.addMemory(id, text) for the resident of the store
AddMemory ==
  /\ adds < MaxAdds
  /\ \E ts \in {now, now + 1} :
       /\ ts = now => adds - now < MaxStalls
       /\ now' = ts
       /\ \E ms \in AddMemoryResults(memories, residents[1].id, ts) :
            /\ memories' = ms
            /\ pruned' = pruned \cup (memories \ ms)
  /\ adds' = adds + 1
  /\ UNCHANGED <<residents, structures, events, sinkVars, phase, simulationRunning,
                 worldLoopVars, cluVars, consoles, importantEvents, thinkLog, storeCalls, client>>

NextMem == AddMemory

SpecMem == InitMem /\ [][NextMem]_vars

-----------------------------------------------------------------------------
(* The store on its own: WorldState methods called directly, with ids the      *)
(* residents table holds and one it does not hold                              *)

StoreWorlds ==
  {<<Resident(1, "axiom-000", 0, 0), Resident(2, "forge-001", U(3), 0),
     Resident(3, "scout-002", U(3), U(4))>>,
   <<Resident(1, "axiom-000", U(-2), U(2)), Resident(2, "forge-001", U(7), U(14)),
     Resident(3, "scout-002", U(-2), U(18))>>}

StoreIds == {1, 2, 9}

InitStore ==
  /\ residents \in StoreWorlds
  /\ structures = <<>>
  /\ events = <<>>
  /\ memories = {}
  /\ pruned = {}
  /\ adds = 0
  /\ now = 0
  /\ broadcasts = <<>>
  /\ execs = <<>>
  /\ phase = "running"
  /\ simulationRunning = TRUE
  /\ cycleCount = 0
  /\ simTimers = 0
  /\ turns = {}
  /\ selected = <<>>
  /\ lastTurn = NoLastTurn
  /\ goals = 0
  /\ observations = 0
  /\ pendingActions = <<>>
  /\ residentInstructions = {}
  /\ conversationHistory = <<>>
  /\ isThinking = FALSE
  /\ thinkTimers = 0
  /\ thinks = {}
  /\ thinkCalls = 0
  /\ consoles = 0
  /\ importantEvents = 0
  /\ thinkLog = <<>>
  /\ storeCalls = <<>>
  /\ client = NoClient

\* a call of a WorldState method and what it returned: null is a null or
\* undefined return, pos a returned position, nearby the nearbyResidents and
\* rows the rows of a returned list
NoCall ==
  [op |-> "", id |-> 0, direction |-> "", distance |-> 0, radius |-> 0,
   null |-> FALSE, pos |-> NullPos, nearby |-> <<>>, rows |-> {}, label |-> <<>>]

storeFrame == <<structures, events, pruned, adds, now, sinkVars, phase, simulationRunning,
                worldLoopVars, cluVars, consoles, importantEvents, thinkLog, client>>

\* worldState.getResident(id)
CallGetResident ==
  /\ Len(storeCalls) < MaxStoreCalls
  /\ \E id \in StoreIds :
       storeCalls' = Append(storeCalls,
         [NoCall EXCEPT !.op = "getResident", !.id = id,
                        !.null = ~HasResident(residents, id),
                        !.pos = GetResidentPosition(residents, id)])
  /\ UNCHANGED <<residents, memories, storeFrame>>

\* worldState.moveResident(id, {direction, distance})
CallMoveResident ==
  /\ Len(storeCalls) < MaxStoreCalls
  /\ \E id \in StoreIds, dir \in {"north", "south", "east", "west", "up"},
        dist \in {0, 2} :
       LET mv == [direction |-> dir, distance |-> dist] IN
       /\ residents' = MoveResident(residents, id, mv)
       /\ storeCalls' = Append(storeCalls,
            [NoCall EXCEPT !.op = "moveResident", !.id = id, !.direction = dir,
                           !.distance = dist,
                           !.null = (MovedPos(residents, id, mv) = NullPos),
                           !.pos = MovedPos(residents, id, mv)])
  /\ UNCHANGED <<memories, storeFrame>>

\* worldState.getPerception(id, radius)
CallGetPerception ==
  /\ Len(storeCalls) < MaxStoreCalls
  /\ \E id \in StoreIds, radius \in {3, 15} :
       \E p \in {GetPerception(residents, id, radius)} :
         storeCalls' = Append(storeCalls,
           [NoCall EXCEPT !.op = "getPerception", !.id = id, !.radius = radius,
                          !.null = p.null, !.pos = p.position,
                          !.nearby = p.nearbyResidents])
  /\ UNCHANGED <<residents, memories, storeFrame>>

\* worldState.getMemories(id)
CallGetMemories ==
  /\ Len(storeCalls) < MaxStoreCalls
  /\ \E id \in StoreIds :
       \E rows \in GetMemories(memories, id, 20) :
         storeCalls' = Append(storeCalls,
           [NoCall EXCEPT !.op = "getMemories", !.id = id, !.rows = rows])
  /\ UNCHANGED <<residents, memories, storeFrame>>

\* worldState.setResidentPosition(id, x, y, z)
CallSetResidentPosition ==
  /\ Len(storeCalls) < MaxStoreCalls
  /\ \E id \in StoreIds :
       /\ residents' = SetResidentPosition(residents, id, U(1), U(1))
       /\ storeCalls' = Append(storeCalls,
            [NoCall EXCEPT !.op = "setResidentPosition", !.id = id, !.null = TRUE])
  /\ UNCHANGED <<memories, storeFrame>>

\* worldState.updateResidentState(id, state)
CallUpdateResidentState ==
  /\ Len(storeCalls) < MaxStoreCalls
  /\ \E id \in StoreIds :
       /\ residents' = UpdateResidentState(residents, id, "acting")
       /\ storeCalls' = Append(storeCalls,
            [NoCall EXCEPT !.op = "updateResidentState", !.id = id, !.null = TRUE])
  /\ UNCHANGED <<memories, storeFrame>>

\* worldState.addMemory(id, text)
CallAddMemory ==
  /\ Len(storeCalls) < MaxStoreCalls
  /\ \E id \in StoreIds :
       /\ \E ms \in AddMemoryResults(memories, id, now) : memories' = ms
       /\ storeCalls' = Append(storeCalls,
            [NoCall EXCEPT !.op = "addMemory", !.id = id, !.null = TRUE])
  /\ UNCHANGED <<residents, storeFrame>>

NextStore ==
  \/ CallGetResident
  \/ CallMoveResident
  \/ CallGetPerception
  \/ CallGetMemories
  \/ CallSetResidentPosition
  \/ CallUpdateResidentState
  \/ CallAddMemory

SpecStore == InitStore /\ [][NextStore]_vars

-----------------------------------------------------------------------------
(* The grid labels on their own: worldToGrid and gridToWorld applied in turn to *)
(* a point, in hundredths of a world unit                                       *)

GridXs == {-5001, -5000, -4999, -2501, -2500, -1, 0, 1, 249, 250, 251, 499, 500, 2499,
           7999, 8000}
GridZs == {-5001, -5000, -1, 0, 499, 500, 4500, 44999, 50250}

InitGrid ==
  /\ residents = <<>>
  /\ structures = <<>>
  /\ events = <<>>
  /\ memories = {}
  /\ pruned = {}
  /\ adds = 0
  /\ now = 0
  /\ broadcasts = <<>>
  /\ execs = <<>>
  /\ phase = "running"
  /\ simulationRunning = TRUE
  /\ cycleCount = 0
  /\ simTimers = 0
  /\ turns = {}
  /\ selected = <<>>
  /\ lastTurn = NoLastTurn
  /\ goals = 0
  /\ observations = 0
  /\ pendingActions = <<>>
  /\ residentInstructions = {}
  /\ conversationHistory = <<>>
  /\ isThinking = FALSE
  /\ thinkTimers = 0
  /\ thinks = {}
  /\ thinkCalls = 0
  /\ consoles = 0
  /\ importantEvents = 0
  /\ thinkLog = <<>>
  /\ storeCalls \in {<<[NoCall EXCEPT !.op = "point", !.pos = <<x, z>>]>> :
                        x \in GridXs, z \in GridZs}
  /\ client = NoClient

\* spatialTools.worldToGrid(x, z) on the point, or on the centre, last returned
CallWorldToGrid ==
  /\ Len(storeCalls) < MaxGridCalls
  /\ storeCalls[Len(storeCalls)].op \in {"point", "gridToWorld"}
  /\ LET p == storeCalls[Len(storeCalls)].pos
     IN storeCalls' = Append(storeCalls,
          [NoCall EXCEPT !.op = "worldToGrid", !.pos = p, !.label = GridLabel(p[1], p[2])])
  /\ UNCHANGED <<residents, memories, storeFrame>>

\* spatialTools.gridToWorld(gridRef) on the label last returned
CallGridToWorld ==
  /\ storeCalls[Len(storeCalls)].op = "worldToGrid"
  /\ LET l == storeCalls[Len(storeCalls)].label
     IN storeCalls' = Append(storeCalls,
          [NoCall EXCEPT !.op = "gridToWorld", !.label = l,
                         !.pos = GridToWorld(ParseLabel(l))])
  /\ UNCHANGED <<residents, memories, storeFrame>>

NextGrid ==
  \/ CallWorldToGrid
  \/ CallGridToWorld

SpecGrid == InitGrid /\ [][NextGrid]_vars

-----------------------------------------------------------------------------
(* The browser's WebSocketClient on its own: connect, the socket's events,     *)
(* the reconnect timer and disconnect                                          *)

maxReconnectAttempts == 10

\* attemptReconnect: give up at the limit, else count the attempt and arm a timer
AttemptReconnect(c) ==
  IF c.reconnectAttempts >= maxReconnectAttempts THEN c
  ELSE [c EXCEPT !.reconnectAttempts = @ + 1, !.timers = @ + 1]

\* connect: this.socket = new WebSocket(url)
Connect(c) ==
  [c EXCEPT !.sockets = Append(@, "connecting"), !.socket = Len(c.sockets) + 1]

\* socket.onopen of socket i
OnOpen(c, i) ==
  [c EXCEPT !.sockets[i] = "open", !.connected = TRUE, !.reconnectAttempts = 0]

\* socket.onclose of socket i
OnClose(c, i) == AttemptReconnect([c EXCEPT !.sockets[i] = "closed", !.connected = FALSE])

\* disconnect: close this.socket if there is one, forget it
Disconnect(c) ==
  [c EXCEPT !.sockets = IF c.socket # 0 /\ c.sockets[c.socket] \in {"connecting", "open"}
                          THEN [@ EXCEPT ![c.socket] = "closing"] ELSE @,
            !.socket = 0, !.connected = FALSE, !.disconnects = @ + 1]

clientFrame == <<storeVars, now, sinkVars, phase, simulationRunning, worldLoopVars, cluVars,
                 consoles, importantEvents, thinkLog, storeCalls>>

\* the page calls connect() once
ClientConnect ==
  /\ client.sockets = <<>>
  /\ client' = Connect(client)
  /\ UNCHANGED clientFrame

\* a connecting socket opens
SocketOpens ==
  /\ \E i \in 1..Len(client.sockets) :
       /\ client.sockets[i] = "connecting"
       /\ client' = OnOpen(client, i)
  /\ UNCHANGED clientFrame

\* a socket closes: the connection failed, was lost, or close() has done its work
SocketCloses ==
  /\ \E i \in 1..Len(client.sockets) :
       /\ client.sockets[i] \in {"connecting", "open", "closing"}
       /\ client' = OnClose(client, i)
  /\ UNCHANGED clientFrame

\* the timer of attemptReconnect fires
ReconnectTimer ==
  /\ client.timers > 0
  /\ Len(client.sockets) < MaxSockets
  /\ client' = Connect([client EXCEPT !.timers = @ - 1])
  /\ UNCHANGED clientFrame

\* the page calls disconnect()
ClientDisconnect ==
  /\ client.sockets # <<>>
  /\ client.disconnects < MaxDisconnects
  /\ client' = Disconnect(client)
  /\ UNCHANGED clientFrame

InitClient == Init /\ residents = <<>>

NextClient ==
  \/ ClientConnect
  \/ SocketOpens
  \/ SocketCloses
  \/ ReconnectTimer
  \/ ClientDisconnect

SpecClient == InitClient /\ [][NextClient]_vars

-----------------------------------------------------------------------------
(* Claims *)

\* C1: every broadcast of an execute call is preceded by a log entry of the same
\* call: when the sink is handed a message of call op, the log already holds an
\* entry of call op.
LogBeforeBroadcast ==
  \A i \in 1..Len(broadcasts) :
    broadcasts[i].op > 0 =>
      \E j \in 1..broadcasts[i].logLen : events[j].op = broadcasts[i].op

\* C2: while a turn is in progress nothing else mutates its resident: the resident
\* is still at the position the turn perceived.
TurnPositionUntouched ==
  \A t \in turns : GetResidentPosition(residents, t.rid) = <<t.x, t.z>>

\* C3: a turn request that stalls does not stop the world ticks: whatever the
\* cycle counter is (below the explored bound), a later tick raises it.
TicksKeepComing ==
  \A c \in 0..(MaxRound - 1) : (cycleCount = c) ~> (cycleCount > c)

\* C4: an execute call that returns a failed result changes no table, appends
\* nothing to the event log and emits no broadcast.
FailedExecuteTouchesNothing ==
  \A i \in 1..Len(execs) :
    ~execs[i].success =>
      /\ ~execs[i].storeChanged
      /\ execs[i].logged = 0
      /\ execs[i].emitted = 0

\* a build was refused as occupied in a world that holds residents and structures
FailedExecuteWitness ==
  \E i \in 1..Len(execs) :
    /\ ~execs[i].success
    /\ execs[i].error = "Space is occupied"
    /\ execs[i].structuresBefore # <<>>
    /\ events # <<>>

\* the squared distances from the centre of the structure built by call e to the
\* residents and structures that existed before the call
OccupantDistSq(e) ==
  {DistSq(e.residentsBefore[i].x, e.residentsBefore[i].z, e.x, e.z) :
     i \in 1..Len(e.residentsBefore)} \cup
  {DistSq(e.structuresBefore[i].x, e.structuresBefore[i].z, e.x, e.z) :
     i \in 1..Len(e.structuresBefore)}

BuiltBy(e) == e.a.action = "build" /\ e.success

\* size * cellSize of the template built by call e, squared, in hundredths
ClearanceSq(e) ==
  (TemplateSize(e.a.type) * U(gridSize)) * (TemplateSize(e.a.type) * U(gridSize))

\* C5 as stated: the centre of every structure built is strictly farther than
\* size x cellSize from every resident and structure that existed before.
BuildStrictlyFarther ==
  \A i \in 1..Len(execs) :
    BuiltBy(execs[i]) => \A d \in OccupantDistSq(execs[i]) : d > ClearanceSq(execs[i])

\* C5 amended: the centre of every structure built is at least size x cellSize
\* away from every resident and structure that existed before (a candidate at
\* exactly that distance is accepted).
BuildAtLeastClearance ==
  \A i \in 1..Len(execs) :
    BuiltBy(execs[i]) => \A d \in OccupantDistSq(execs[i]) : d >= ClearanceSq(execs[i])

\* a structure was built at exactly size x cellSize from an earlier structure,
\* with a resident in the world
BuildAtClearanceWitness ==
  \E i \in 1..Len(execs) :
    /\ BuiltBy(execs[i])
    /\ execs[i].residentsBefore # <<>>
    /\ \E j \in 1..Len(execs[i].structuresBefore) :
         DistSq(execs[i].structuresBefore[j].x, execs[i].structuresBefore[j].z,
                execs[i].x, execs[i].z) = ClearanceSq(execs[i])

\* two consecutive calls build a beacon near the same point, the first of them
\* in a world with no resident and no structure
TwinBeacons(i) ==
  /\ i + 1 <= Len(execs)
  /\ execs[i].a.action = "build" /\ execs[i].a.type = "beacon"
  /\ execs[i].a.loc.kind \in {"near", "nearName"}
  /\ execs[i + 1].a = execs[i].a
  /\ execs[i].residentsBefore = <<>>
  /\ execs[i].structuresBefore = <<>>

\* C6: two consecutive build('beacon', near = p) calls on an empty world both
\* succeed, and the second position differs from the first and is at least one
\* cell size away from it.
TwinBeaconsApart ==
  \A i \in 1..Len(execs) :
    TwinBeacons(i) =>
      /\ execs[i].success /\ execs[i + 1].success
      /\ <<execs[i].x, execs[i].z>> # <<execs[i + 1].x, execs[i + 1].z>>
      /\ DistSq(execs[i].x, execs[i].z, execs[i + 1].x, execs[i + 1].z)
           >= U(gridSize) * U(gridSize)

\* the scenario happened: a beacon at (5, 0), then a second one elsewhere
TwinBeaconsWitness ==
  \E i \in 1..Len(execs) :
    /\ TwinBeacons(i)
    /\ <<execs[i].x, execs[i].z>> = <<U(5), 0>>
    /\ Len(structures) = 2

\* entity[i] of the store's list, i counted from 0
Entity(i) == residents[i + 1].id

\* C7 as stated: with 5 residents the ticks select entity[0], entity[1], ...,
\* entity[4], entity[0], ... in that order.
RoundRobinFromFirst ==
  Len(residents) = 5 =>
    \A k \in 1..Len(selected) : selected[k].rid = Entity((k - 1) % 5)

\* C7 amended: every tick selects entity[c mod n] for its cycle counter c, which
\* is counted before the selection: the ticks carry the counters 1, 2, ... and
\* with 5 residents they select entity[1], ..., entity[4], entity[0], entity[1], ...
RoundRobinByCounter ==
  \A k \in 1..Len(selected) :
    /\ selected[k].cycle = k
    /\ selected[k].rid = Entity(selected[k].cycle % Len(residents))
    /\ Len(residents) = 5 => selected[k].rid = Entity(k % 5)

\* ten ticks on five residents: the last of them selects entity[0]
RoundRobinWitness ==
  /\ Len(residents) = 5
  /\ Len(selected) = 10
  /\ selected[10].rid = Entity(0)
  /\ selected[1].rid = Entity(1)

\* C8: at most one turn is in flight; while it is, no world tick is armed, it is
\* the turn of the latest cycle and the turn of the cycle before has completed;
\* every resident not in a turn is idle.
TurnsNeverInterleaved ==
  /\ Cardinality(turns) <= 1
  /\ \A t \in turns :
       /\ simTimers = 0
       /\ t.cycle = cycleCount
       /\ cycleCount > 1 => lastTurn.cycle = cycleCount - 1
  /\ \A i \in 1..Len(residents) : residents[i].state = "idle"

\* a second turn is in flight after the first one completed
SecondTurnWitness ==
  \E t \in turns : t.cycle = 2 /\ lastTurn.cycle = 1 /\ lastTurn.rid # t.rid

\* the getMemories limits explored: the default, the cap, beyond the cap
MemoryLimits == {20, MemoryCap, MemoryCap + 50}

\* C9: a resident holds at most 100 memories, getMemories returns at most 100
\* rows, and no pruned row is newer than a retained row; once a row was pruned
\* exactly 100 rows are retained.
MemoryCapHolds ==
  \A i \in 1..Len(residents) :
    LET mine == {m \in memories : m.rid = residents[i].id}
        gone == {m \in pruned : m.rid = residents[i].id}
    IN /\ Cardinality(mine) <= MemoryCap
       /\ \A limit \in MemoryLimits :
            \A K \in GetMemories(memories, residents[i].id, limit) :
              Cardinality(K) <= MemoryCap /\ Cardinality(K) <= limit
       /\ \A g \in gone : \A m \in mine : g.ts <= m.ts
       /\ gone # {} => Cardinality(mine) = MemoryCap

\* rows were pruned, one of them written in the same millisecond as a retained row
MemoryPrunedWitness ==
  /\ Cardinality(pruned) >= 2
  /\ Cardinality(memories) = MemoryCap
  /\ \E g \in pruned : \E m \in memories : g.ts = m.ts

\* C10: after a turn request that failed or returned nothing that parses, the
\* turn applied is a well-formed turn of the fallback policy, and the loop has
\* armed its next tick.
FallbackTurnWellFormed ==
  lastTurn.failed =>
    /\ lastTurn.turn.source = "mock"
    /\ lastTurn.turn.inner_thought # ""
    /\ \/ lastTurn.turn.movement = NoMovement
       \/ /\ lastTurn.turn.movement.direction \in {"north", "south", "east", "west"}
          /\ lastTurn.turn.movement.distance \in 1..3
    /\ lastTurn.cycle = cycleCount => (turns = {} /\ simTimers = 1)

\* a failed request was answered by a fallback turn that moves, speaks and acts
FallbackTurnWitness ==
  /\ lastTurn.failed
  /\ lastTurn.turn.movement.direction = "west"
  /\ lastTurn.turn.speech # ""
  /\ lastTurn.turn.action # ""
  /\ GetResidentPosition(residents, lastTurn.rid) # NullPos
  /\ simTimers = 1

\* C11: a gather toward t moves each resident by exactly min(estimated distance, 5)
\* units along its estimated direction, no resident ends up past t on the axis it
\* moved along, and a resident already at t does not move.
GatherNeverOvershoots ==
  (execs # <<>> /\ execs[Len(execs)].a.action = "gather" /\ execs[Len(execs)].success) =>
    LET e == execs[Len(execs)]
        before == e.residentsBefore
    IN \A i \in 1..Len(before) :
         LET dir == PathDirection(before[i].x, before[i].z, e.x, e.z)
             est == PathDistance(before[i].x, before[i].z, e.x, e.z)
         IN /\ residents[i].x = before[i].x + DirX(dir) * U(Min(est, 5))
            /\ residents[i].z = before[i].z + DirZ(dir) * U(Min(est, 5))
            /\ (before[i].x - e.x) * (residents[i].x - e.x) >= 0
            /\ (before[i].z - e.z) * (residents[i].z - e.z) >= 0
            /\ (before[i].x = e.x /\ before[i].z = e.z) =>
                 (residents[i].x = before[i].x /\ residents[i].z = before[i].z)

\* C12: a deliberation whose request failed is a no-op: it adds no goal, no
\* observation, no pending action, no resident instruction and no conversation
\* history entry, and it dispatches no action.
FailedThinkIsNoOp ==
  [][(Len(thinkLog') > Len(thinkLog) /\ thinkLog'[Len(thinkLog')].failed) =>
       /\ goals' = goals
       /\ observations' = observations
       /\ pendingActions' = pendingActions
       /\ residentInstructions' = residentInstructions
       /\ conversationHistory' = conversationHistory
       /\ execs' = execs]_vars

\* C13: whenever cluThinkLoop arms its next timer the pending-action queue is
\* empty: every tick of the loop, whatever its outcome, has drained the queue.
QueueEmptyWhenRearmed ==
  \A i \in 1..Len(thinkLog) :
    thinkLog[i].source \in {"loop", "busy"} => thinkLog[i].left = <<>>

\* C14: the store is closed only once no turn and no deliberation is in flight,
\* and after the store is closed nothing is appended to the log, handed to the
\* sink or dispatched.
StoreClosedAfterInFlight ==
  [][/\ (phase # "closed" /\ phase' = "closed") => (turns = {} /\ thinks = {})
     /\ phase = "closed" =>
          (events' = events /\ broadcasts' = broadcasts /\ execs' = execs)]_vars

\* C15: after the shutdown signal no world tick and no think tick begins: no
\* resident is selected, no request to the model server is started, and a step
\* in which no pending request resumes arms no timer.
NoTickAfterShutdown ==
  [][phase = "closed" =>
       /\ cycleCount' = cycleCount
       /\ selected' = selected
       /\ thinkCalls' = thinkCalls
       /\ turns' \subseteq turns
       /\ thinks' \subseteq thinks
       /\ (turns' = turns /\ thinks' = thinks) =>
            (simTimers' <= simTimers /\ thinkTimers' <= thinkTimers)]_vars

\* the think timer armed at boot and the world timer armed by the last turn have
\* both fired after the signal (neither loop had used up its ticks), and nothing
\* is armed or in flight any more
TimersDiedWitness ==
  /\ phase = "closed"
  /\ ~simulationRunning
  /\ lastTurn.cycle = cycleCount
  /\ cycleCount < MaxCycle
  /\ thinkCalls < MaxThinks
  /\ simTimers = 0 /\ thinkTimers = 0
  /\ turns = {} /\ thinks = {}

\* C16: while the simulation runs an error inside a world tick skips that tick
\* only: the loop is alive, either waiting for its turn's answer or with its
\* next timer armed.
LoopAlwaysRearmed ==
  (phase = "running" /\ simulationRunning) => (turns # {} \/ simTimers > 0)

\* C17: the resident whose turn is in flight is in state acting, and a resident
\* with no turn in flight is idle.
TurnLifecycle ==
  \A i \in 1..Len(residents) :
    IF \E t \in turns : t.rid = residents[i].id
      THEN residents[i].state = "acting"
      ELSE residents[i].state = "idle"

\* the turn markers handed to the sink, in order
TurnMarkers ==
  SelectSeq(broadcasts, LAMBDA m : m.type \in {"resident_turn_start", "resident_turn_end"})

\* C18: the turn markers alternate, every resident_turn_start followed by the
\* resident_turn_end of the same resident before the next start, and once no turn
\* is in flight every start has its end.
TurnMarkersBracket ==
  /\ \A i \in 1..Len(TurnMarkers) :
       IF i % 2 = 1
         THEN TurnMarkers[i].type = "resident_turn_start"
         ELSE /\ TurnMarkers[i].type = "resident_turn_end"
              /\ TurnMarkers[i].rid = TurnMarkers[i - 1].rid
  /\ turns = {} => Len(TurnMarkers) % 2 = 0

\* C19: applying a turn whose movement is null leaves the position of every
\* resident as it was and hands no resident_moved message to the sink.
NullMovementKeepsPosition ==
  [][(turns' \subseteq turns /\ turns' # turns /\ lastTurn'.turn.movement = NoMovement) =>
       /\ \A i \in 1..Len(residents) :
            residents'[i].x = residents[i].x /\ residents'[i].z = residents[i].z
       /\ \A k \in (Len(broadcasts) + 1)..Len(broadcasts') :
            broadcasts'[k].type # "resident_moved"]_vars

\* a turn of the model server with null movement that speaks has been applied
NullMovementWitness ==
  /\ lastTurn.turn.source = "live"
  /\ lastTurn.turn.movement = NoMovement
  /\ lastTurn.turn.speech # ""
  /\ GetResidentPosition(residents, lastTurn.rid) # NullPos
  /\ broadcasts # <<>>
  /\ broadcasts[Len(broadcasts)].type = "resident_turn_end"
  /\ broadcasts[Len(broadcasts)].rid = lastTurn.rid

LastCall == storeCalls'[Len(storeCalls')]

\* C21: moveResident for a known id and a compass direction sets the position to
\* the old one plus the unit vector of the direction times the distance, for
\* every distance, 0 included, leaves the other axis alone and returns the new
\* position.
MoveByExactDistance ==
  [][(Len(storeCalls') > Len(storeCalls) /\ LastCall.op = "moveResident"
        /\ HasResident(residents, LastCall.id)
        /\ LastCall.direction \in {"north", "south", "east", "west"}) =>
       LET old == GetResidentPosition(residents, LastCall.id)
           new == <<old[1] + DirX(LastCall.direction) * U(LastCall.distance),
                    old[2] + DirZ(LastCall.direction) * U(LastCall.distance)>>
       IN /\ GetResidentPosition(residents', LastCall.id) = new
          /\ LastCall.pos = new]_vars

\* C22: a store call with an id the residents table does not hold returns null
\* or an empty list and leaves the residents and the memories tables as they
\* were.
UnknownIdTouchesNothing ==
  [][(Len(storeCalls') > Len(storeCalls) /\ ~HasResident(residents, LastCall.id)) =>
       /\ residents' = residents
       /\ memories' = memories
       /\ LastCall.pos = NullPos
       /\ LastCall.nearby = <<>>
       /\ LastCall.rows = {}
       /\ LastCall.op \notin {"getMemories"} => LastCall.null]_vars

\* C23: getPerception(id, radius) for a known id lists exactly the residents other
\* than id whose distance to id's position is at most radius, the boundary
\* included, each once, with that distance and its state.
PerceptionExact ==
  [][(Len(storeCalls') > Len(storeCalls) /\ LastCall.op = "getPerception"
        /\ HasResident(residents, LastCall.id)) =>
       LET pos == GetResidentPosition(residents, LastCall.id)
           r2 == U(LastCall.radius) * U(LastCall.radius)
           near == {i \in 1..Len(residents) :
                      /\ residents[i].id # LastCall.id
                      /\ DistSq(residents[i].x, residents[i].z, pos[1], pos[2]) <= r2}
           listed == LastCall.nearby
       IN /\ ~LastCall.null
          /\ LastCall.pos = pos
          /\ {listed[k].id : k \in 1..Len(listed)} = {residents[i].id : i \in near}
          /\ Len(listed) = Cardinality(near)
          /\ \A k \in 1..Len(listed) :
               \E i \in near :
                 /\ listed[k].id = residents[i].id
                 /\ listed[k].state = residents[i].state
                 /\ listed[k].distSq =
                      DistSq(residents[i].x, residents[i].z, pos[1], pos[2])]_vars

\* a perception with radius 3 of a resident with one neighbour exactly 3 units
\* away and another one 5 units away: the first is listed, alone
PerceptionBoundaryWitness ==
  /\ storeCalls # <<>>
  /\ LET c == storeCalls[Len(storeCalls)]
     IN /\ c.op = "getPerception" /\ c.radius = 3 /\ ~c.null
        /\ Len(c.nearby) = 1
        /\ c.nearby[1].distSq = U(3) * U(3)
        /\ c.nearby[1].id # c.id
        /\ \E i \in 1..Len(residents) :
             /\ residents[i].id \notin {c.id, c.nearby[1].id}
             /\ DistSq(residents[i].x, residents[i].z, c.pos[1], c.pos[2]) = U(5) * U(5)

\* the points whose column gets a letter of its own (A to Z, 26 columns of
\* gridSize from 10 columns west of the origin) and whose row number is not
\* negative
InExtent(p) ==
  /\ -10 * U(gridSize) <= p[1] /\ p[1] < 16 * U(gridSize)
  /\ -10 * U(gridSize) <= p[2]

\* C24: for a point inside the supported extent gridToWorld(worldToGrid(x, z)) is
\* the centre of the cell that holds (x, z), at most half a cell from it on each
\* axis, and worldToGrid(gridToWorld(ref)) gives back the label ref.
GridRoundTrip ==
  /\ (Len(storeCalls) >= 3 /\ storeCalls[1].op = "point" /\ InExtent(storeCalls[1].pos)) =>
       LET p == storeCalls[1].pos
           c == storeCalls[3].pos
       IN /\ c[1] - U(gridSize) \div 2 <= p[1] /\ p[1] < c[1] + U(gridSize) \div 2
          /\ c[2] - U(gridSize) \div 2 <= p[2] /\ p[2] < c[2] + U(gridSize) \div 2
          /\ (c[1] - U(gridSize) \div 2) % U(gridSize) = 0
          /\ (c[2] - U(gridSize) \div 2) % U(gridSize) = 0
  /\ (Len(storeCalls) >= 4 /\ storeCalls[1].op = "point" /\ InExtent(storeCalls[1].pos)) =>
       storeCalls[4].label = storeCalls[2].label

\* the point (79.99, 449.99) in the last column and row 99 of the extent went to
\* the label Z99, to the centre of that cell and back to the label
GridRoundTripWitness ==
  /\ Len(storeCalls) = 4
  /\ storeCalls[1].op = "point"
  /\ storeCalls[1].pos = <<7999, 44999>>
  /\ storeCalls[2].label = <<90, 57, 57>>
  /\ storeCalls[3].pos = <<7750, 44750>>
  /\ storeCalls[4].label = <<90, 57, 57>>

\* C25: once startSimulation has started the loops the residents table holds at
\* least initialResidents rows, whatever it held before.
MinimumPopulation ==
  phase # "boot" => Len(residents) >= initialResidents

\* C26: after a successful instruct action for a resident the instruction is
\* queued for it: the first turn the resident begins afterwards carries the
\* instruction as its directive.
InstructReachesNextTurn ==
  [][\A t \in turns' \ turns :
       \A i \in 1..Len(execs) :
         (/\ execs[i].a.action = "instruct" /\ execs[i].success
          /\ execs[i].a.residentId = t.rid
          /\ \A k \in 1..Len(selected) : selected[k].rid # t.rid) =>
           t.directive = execs[i].a.instruction]_vars

DrainDispatchesOnce ==
  [][(Len(thinkLog') > Len(thinkLog) /\ thinkLog'[Len(thinkLog')].source = "loop") =>
       \A k \in (Len(execs) + 1)..Len(execs') :
         execs'[k].a \in {r.action : r \in TalkReplies} =>
           \A i \in 1..Len(execs) : execs[i].a # execs'[k].a]_vars

SmallerFootprint(a, b) ==
  IF TemplateSize(a.type) <= TemplateSize(b.type)
    THEN TemplateSize(a.type) * U(gridSize)
    ELSE TemplateSize(b.type) * U(gridSize)

LargerFootprint(a, b) ==
  IF TemplateSize(a.type) >= TemplateSize(b.type)
    THEN TemplateSize(a.type) * U(gridSize)
    ELSE TemplateSize(b.type) * U(gridSize)

\* C30: the centers of any two structures of the store are at least the
\* smaller of their two footprints (template size times the cell size) apart.
StructuresApart ==
  \A i, j \in 1..Len(structures) :
    i < j =>
      DistSq(structures[i].x, structures[i].z, structures[j].x, structures[j].z)
        >= SmallerFootprint(structures[i], structures[j]) *
           SmallerFootprint(structures[i], structures[j])

\* two structures of different footprints were built, closer to each other
\* than the larger footprint
StructuresApartWitness ==
  \E i, j \in 1..Len(structures) :
    /\ i < j
    /\ TemplateSize(structures[i].type) # TemplateSize(structures[j].type)
    /\ DistSq(structures[i].x, structures[i].z, structures[j].x, structures[j].z)
         < LargerFootprint(structures[i], structures[j]) *
           LargerFootprint(structures[i], structures[j])

\* C31: a build that resolves its position by 'near' (an explicit near, a
\* named near or the default) never fails with 'Space is occupied': the point
\* findEmptySpace returns passes validatePlacement.
NearBuildNeverOccupied ==
  \A i \in 1..Len(execs) :
    (execs[i].a.action = "build" /\ execs[i].a.loc.kind \notin {"ref", "point"}) =>
      execs[i].error # "Space is occupied"

\* C32: every label worldToGrid returns starts with one of the letters A..Z
\* and goes on with the digits of a non-negative number, wherever the point is.
LabelWellFormed ==
  \A i \in 1..Len(storeCalls) :
    storeCalls[i].op = "worldToGrid" =>
      /\ storeCalls[i].label[1] \in 65..90
      /\ \A k \in 2..Len(storeCalls[i].label) : storeCalls[i].label[k] \in 48..57

\* C33: the conversation history never holds more than maxHistoryLength entries.
HistoryBounded == Len(conversationHistory) <= maxHistoryLength

\* C34: at most one think() is in flight and the flag says so; a think() called
\* while one is in flight changes neither goals, observations, queues nor
\* history; when a think() ends the flag is clear, so the next call starts one.
OneThinkInFlight ==
  /\ [](Cardinality(thinks) <= 1 /\ (isThinking <=> thinks # {}))
  /\ [][(isThinking /\ thinks' = thinks) =>
          UNCHANGED <<goals, observations, pendingActions, residentInstructions,
                      conversationHistory>>]_vars
  /\ [][(thinks' # thinks /\ thinks' \subseteq thinks) => ~isThinking']_vars

\* a think() was refused while another was in flight, that one ended, and a
\* later think() is in flight
ThinkAgainWitness ==
  /\ thinks # {}
  /\ \E k, j \in 1..Len(thinkLog) :
       /\ k < j
       /\ thinkLog[k].source = "busy"
       /\ thinkLog[j].source \in {"loop", "console"}

\* C35: the sink has received exactly one structure_built message for each
\* structure of the store, whichever path built it.
OneBroadcastPerStructure ==
  Len(SelectSeq(broadcasts, LAMBDA b : b.type = "structure_built")) = Len(structures)

\* C36: the two loops progress independently. If the turn requests are
\* answered, the world ticks go on up to the bound even when a think request
\* never returns; if the think requests are answered, the think ticks go on up
\* to the bound even when a turn request never returns.
LoopsIndependent ==
  /\ WF_vars(TurnResponseOn(ServerReplies)) => <>(cycleCount = MaxPaceCycle)
  /\ WF_vars(ThinkResponseOn(PlainThinkReplies)) => <>(thinkCalls = MaxPaceThinks)

\* the turn of the first world tick is still in flight and the think loop has
\* ended one think and started the next
ThinksPastTurnWitness ==
  /\ \E t \in turns : t.cycle = 1
  /\ thinkCalls = MaxPaceThinks
  /\ \E k \in 1..Len(thinkLog) : thinkLog[k].source = "loop"

\* the displacement moveResident applies for a movement
DisplacementX(mv) == DirX(mv.direction) * U(IF mv.distance = 0 THEN 1 ELSE mv.distance)
DisplacementZ(mv) == DirZ(mv.direction) * U(IF mv.distance = 0 THEN 1 ELSE mv.distance)

\* C37: a turn's move is applied to the position the store holds when the move
\* is applied: the resident ends at that position plus the turn's displacement,
\* whatever moved it while the turn was in flight, and no other resident moves.
NoLostUpdate ==
  [][(turns' \subseteq turns /\ turns' # turns /\ phase # "closed"
        /\ lastTurn'.turn.movement # NoMovement) =>
       \A i \in 1..Len(residents) :
         IF residents[i].id = lastTurn'.rid
           THEN /\ residents'[i].x = residents[i].x + DisplacementX(lastTurn'.turn.movement)
                /\ residents'[i].z = residents[i].z + DisplacementZ(lastTurn'.turn.movement)
           ELSE /\ residents'[i].x = residents[i].x
                /\ residents'[i].z = residents[i].z]_vars

\* a gather moved the resident of the first turn while that turn was in
\* flight, and the turn's move was applied on top of the gather's
BothMovesWitness ==
  /\ lastTurn.cycle = 1
  /\ lastTurn.turn.movement # NoMovement
  /\ \E k \in 1..Len(execs), i \in 1..Len(residents) :
       /\ execs[k].a.action = "gather" /\ execs[k].success
       /\ residents[i].id = lastTurn.rid
       /\ Len(execs[k].residentsBefore) = Len(residents)
       /\ \E g \in {GatherLoop(execs[k].residentsBefore, execs[k].residentsBefore, 1,
                                 <<execs[k].x, execs[k].z>>)} :
            /\ <<g[i].x, g[i].z>> #
                 <<execs[k].residentsBefore[i].x, execs[k].residentsBefore[i].z>>
            /\ residents[i].x = g[i].x + DisplacementX(lastTurn.turn.movement)
            /\ residents[i].z = g[i].z + DisplacementZ(lastTurn.turn.movement)

\* C38: with n residents, any n consecutive world ticks select every resident,
\* each of them once.
EveryWindowServesAll ==
  \A k \in 1..Len(selected) :
    k + Len(residents) - 1 <= Len(selected) =>
      {selected[j].rid : j \in k..(k + Len(residents) - 1)} =
        {residents[i].id : i \in 1..Len(residents)}

\* five residents and a window of five ticks that starts in the middle of a round
WindowAcrossRoundsWitness ==
  /\ Len(residents) = 5
  /\ Len(selected) >= 8
  /\ selected[8].rid = selected[3].rid
  /\ {selected[j].rid : j \in 3..7} = {residents[i].id : i \in 1..5}

\* C39: reconnectAttempts never exceeds maxReconnectAttempts, it is 0 after
\* every socket's open, and once disconnect() has been called no reconnect
\* timer is armed any more.
ReconnectBoundedAndClosable ==
  /\ [](client.reconnectAttempts <= maxReconnectAttempts)
  /\ [][(\E i \in 1..Len(client.sockets) :
            client.sockets[i] = "connecting" /\ client'.sockets[i] = "open") =>
          client'.reconnectAttempts = 0]_vars
  /\ [][client.disconnects > 0 => client'.timers <= client.timers]_vars

====
